---- MODULE Spec2Model ----
(***************************************************************************)
(* Web Algebra evaluator: Operation.process_json, the variable stack and   *)
(* the control-flow operators (Variable, Value, Current, ForEach, Execute) *)
(* with the primitives they are composed with (Concat, Uri, SELECT).       *)
(*                                                                         *)
(* Python objects that are shared by reference (the variable-stack lists   *)
(* and the scope dicts in them) live in a heap: `lists` maps a list        *)
(* identity to the sequence of dict identities it holds, `dicts` holds the *)
(* dict contents.  Everything else is a value.                             *)
(*                                                                         *)
(* `reg` is Operation.registry as calls of Operation.register fill it, and *)
(* `http` a request of LinkedDataClient or SPARQLClient in progress.       *)
(***************************************************************************)
EXTENDS Integers, Sequences, FiniteSets, TLC

VARIABLES lists, dicts, ev, reg, http

vars == <<lists, dicts, ev, reg, http>>

---------------------------------------------------------------------------
(* Bounds of the model *)

MaxLen == 3
MaxItems == 2
MaxOps == 2
MaxCalls == 3
MaxRegistrations == 4
MaxRedirects == 2

---------------------------------------------------------------------------
(* Runtime values *)

None == [k |-> "None"]
XSD_string == "xsd:string"
XSD_integer == "xsd:integer"
XSD_double == "xsd:double"
XSD_boolean == "xsd:boolean"
\* A datatype or language that is None
Absent == "None"
Literal(lex, datatype, lang) ==
    [k |-> "Literal", lex |-> lex, datatype |-> datatype, language |-> lang]
URIRef(s) == [k |-> "URIRef", lex |-> s]
BNode(s) == [k |-> "BNode", lex |-> s]
PyList(items) == [k |-> "list", items |-> items]
PyDict(fields) == [k |-> "dict", fields |-> fields]
Result(vs, bindings) == [k |-> "Result", vars |-> vs, bindings |-> bindings]
ResultRow(b, labels) == [k |-> "ResultRow", b |-> b, labels |-> labels]

\* A Python int, which no JSON scalar evaluates to
PyInt(n) == [k |-> "int", n |-> n]
\* The i-th character of a term, a term being a str
PyChar(term, i) == [k |-> "str", of |-> term, at |-> i]

\* rdflib.Graph: a set of triples <<s, p, o>>
Graph(triples) == [k |-> "Graph", triples |-> triples]

\* `context: dict = {}`, the default context of process_json and Operation
EmptyContext == PyDict(<<>>)

\* isinstance(v, rdflib.term.Node)
IsNode(v) == v.k \in {"Literal", "URIRef", "BNode"}

\* str(term); str() of a plain Python string, number, boolean or None
PyStr(v) ==
    IF "lex" \in DOMAIN v THEN v.lex
    ELSE IF v.j = "int" THEN ToString(v.n)
    ELSE IF v.j = "bool" THEN (IF v.b THEN "True" ELSE "False")
    ELSE IF v.j = "null" THEN "None"
    ELSE v.v

\* Exceptions, by the type and message the code raises them with
NoExc == ""
UnknownOperation == "ValueError: Unknown operation"
VariableNotFound == "ValueError: Variable not found"
ContextVariableNotFound == "ValueError: Context variable not found"
RowVariableNotFound == "ValueError: Variable not found in ResultRow"
CurrentRequiresContext == "ValueError: Current operation requires context"
ForEachSelectType == "TypeError: ForEach expects 'select' to be sequence (list) or Result"
ExecuteOperationType == "TypeError: Execute.execute expects operation dict with '@op' key"
ImplicitStringConversion == "TypeError: Cannot implicitly convert to string"
UriInputType == "TypeError: Uri operation expects input to be RDFLib term"
SelectEndpointType == "TypeError: SELECT operation expects 'endpoint' to be URIRef"
FilterExpressionType == "TypeError: Filter operation expects 'expression' to be int"
FilterInputType == "TypeError: Filter expects iterable input"
FilterPositionLow == "ValueError: Position must be >= 1"
FilterPositionHigh == "ValueError: Position exceeds number of bindings"
ReplaceInputType == "TypeError: Replace operation expects string-compatible Literal"
ResolveURIBaseType == "TypeError: ResolveURI operation expects 'base' to be URIRef"
ResolveURIRelativeType == "TypeError: ResolveURI operation expects 'relative' to be Literal"
UnknownBindingType == "ValueError: Unknown binding type"
SubstituteQueryType == "TypeError: Substitute operation expects 'query' to be Literal"
SubstituteVarType == "TypeError: Substitute operation expects 'var' to be Literal"
SubstituteBindingType == "TypeError: Substitute.execute expects binding_value to be URIRef, Literal, or BNode"
MergeGraphsType == "TypeError: Merge operation expects 'graphs' to be list"
MergeItemType == "TypeError: Merge operation expects graph items to be Graph or dict"
BindingsTableType == "TypeError: Bindings operation expects 'table' to be Result"
EncodeForURIInputType == "TypeError: EncodeForURI.execute expects input_str to be Literal"
SelectQueryType == "TypeError: SELECT operation expects 'query' to be string Literal"

---------------------------------------------------------------------------
(* JSON programs *)

JStr(s) == [j |-> "str", v |-> s]
JInt(n) == [j |-> "int", n |-> n]
JBool(b) == [j |-> "bool", b |-> b]
\* A float, by the text Python prints for it
JFloat(s) == [j |-> "float", v |-> s]
JNull == [j |-> "null"]
JList(items) == [j |-> "list", items |-> items]
JObject(fields) == [j |-> "object", fields |-> fields]
Op(name, args) == [j |-> "op", op |-> name, args |-> args]

\* Variable names are strings; the `$` prefix is their first character
X == <<"x">>
Y == <<"y">>
DX == <<"$", "x">>
DY == <<"$", "y">>

Variable(name, value) == Op("Variable", [name |-> name, value |-> value])
Value(name) == Op("Value", [name |-> name])
Current == Op("Current", <<>>)
ForEach(select, operation) == Op("ForEach", [select |-> select, operation |-> operation])
Execute(operation) == Op("Execute", [operation |-> operation])
Concat(inputs) == Op("Concat", [inputs |-> inputs])
Uri(input) == Op("Uri", [input |-> input])
SELECT(endpoint, query) == Op("SELECT", [endpoint |-> endpoint, query |-> query])
Filter(input, expression) == Op("Filter", [input |-> input, expression |-> expression])
Replace(input, pattern, replacement) ==
    Op("Replace", [input |-> input, pattern |-> pattern, replacement |-> replacement])
EncodeForURI(input) == Op("EncodeForURI", [input |-> input])
Substitute(query, var, binding) ==
    Op("Substitute", [query |-> query, var |-> var, binding |-> binding])
Merge(graphs) == Op("Merge", [graphs |-> graphs])
Bindings(table) == Op("Bindings", [table |-> table])
ResolveURI(base, relative) == Op("ResolveURI", [base |-> base, relative |-> relative])

\* Operation.registry after registration of the operator package
registry ==
    {"Variable", "Value", "Current", "ForEach", "Execute", "Concat", "Uri", "SELECT",
     "Filter", "Replace", "EncodeForURI", "ResolveURI", "Substitute", "Merge",
     "Bindings"}

---------------------------------------------------------------------------
(* The heap: list and dict objects *)

Threads == {1, 2}

\* The list object that is the default of process_json's variable_stack
\* parameter: created once, when the function is defined
DefaultStack == <<"default", 0>>
\* The list a caller passes as variable_stack, and the current_stack of the
\* top-level list loop of evaluation t
ArgStack(t) == <<"arg", t>>
CurrentStack(t) == <<"cur", t>>
TmpStack(n) == <<"tmp", n>>

RootLists == {DefaultStack} \cup {ArgStack(t) : t \in Threads} \cup {CurrentStack(t) : t \in Threads}
RootOrder == <<DefaultStack, ArgStack(1), CurrentStack(1), ArgStack(2), CurrentStack(2)>>

EmptyDict == [n \in {} |-> None]
DictSet(d, name, value) == [n \in (DOMAIN d) \cup {name} |-> IF n = name THEN value ELSE d[n]]

\* The machine an evaluation runs on: the heap, the answer the SPARQL
\* endpoint gives, the operator instances constructed so far, and the
\* result or exception of the call that just returned
Return(m, v) == [m EXCEPT !.res = v, !.exc = NoExc]
Raise(m, e) == [m EXCEPT !.res = None, !.exc = e]

\* operation_cls(settings=settings, context=context)
Instantiate(m, op, context) ==
    [m EXCEPT !.trace = Append(@, [e |-> "op", op |-> op, ctx |-> context])]

\* logging.info("Processing item: %s", item)
LogItem(m, item) ==
    [m EXCEPT !.trace = Append(@, [e |-> "item", op |-> "", ctx |-> item])]

\* Contents of a stack: its scopes, bottom first
Scopes(ls, ds, id) == [i \in 1..Len(ls[id]) |-> ds[ls[id][i]]]

---------------------------------------------------------------------------
(* Operation: variable stack management *)

\* Operation.set_variable
set_variable(name, value, variable_stack, m) ==
    LET m1 == IF m.lists[variable_stack] = <<>>
              THEN [m EXCEPT !.dicts = Append(@, EmptyDict),
                             !.lists[variable_stack] = <<Len(m.dicts) + 1>>]
              ELSE m
        stack == m1.lists[variable_stack]
        top == stack[Len(stack)]
    IN  [m1 EXCEPT !.dicts[top] = DictSet(@, name, value)]

\* The loop of Operation.get_variable over reversed(variable_stack),
\* with i scopes left to search
RECURSIVE get_variable_from(_, _, _, _)
get_variable_from(i, name, stack, m) ==
    IF i = 0 THEN Raise(m, VariableNotFound)
    ELSE IF name \in DOMAIN m.dicts[stack[i]]
         THEN Return(m, m.dicts[stack[i]][name])
         ELSE get_variable_from(i - 1, name, stack, m)

\* A search from the outermost scope inwards
RECURSIVE get_variable_outwards(_, _, _, _)
get_variable_outwards(i, name, stack, m) ==
    IF i > Len(stack) THEN Raise(m, VariableNotFound)
    ELSE IF name \in DOMAIN m.dicts[stack[i]]
         THEN Return(m, m.dicts[stack[i]][name])
         ELSE get_variable_outwards(i + 1, name, stack, m)

get_variable_outermost(name, variable_stack, m) ==
    get_variable_outwards(1, name, m.lists[variable_stack], m)

\* Operation.get_variable
get_variable(name, variable_stack, m) ==
    get_variable_from(Len(m.lists[variable_stack]), name, m.lists[variable_stack], m)

\* isinstance(data, cls) for a JSON scalar: bool is a subclass of int
isinstance(data, cls) ==
    \/ data.j = cls
    \/ data.j = "bool" /\ cls = "int"

\* The lexical form rdflib's Literal takes from a Python value
lexical(data) ==
    IF data.j = "int" THEN ToString(data.n)
    ELSE IF data.j = "bool" THEN (IF data.b THEN "true" ELSE "false")
    ELSE data.v

\* Operation.json_to_rdflib on a JSON scalar
json_to_rdflib(data) ==
    IF isinstance(data, "str") THEN Literal(data.v, XSD_string, Absent)
    ELSE IF isinstance(data, "int") THEN Literal(lexical(data), XSD_integer, Absent)
    ELSE IF isinstance(data, "float") THEN Literal(lexical(data), XSD_double, Absent)
    ELSE IF isinstance(data, "bool") THEN Literal(lexical(data), XSD_boolean, Absent)
    ELSE Literal("None", XSD_string, Absent)

\* A to_string_literal that makes a string of any term
to_string_literal_of_any(term, m) ==
    IF term.k \in {"Literal", "URIRef", "BNode"}
    THEN Return(m, Literal(term.lex, XSD_string, Absent))
    ELSE Raise(m, ImplicitStringConversion)

\* Operation.to_string_literal: the term, or a TypeError
to_string_literal(term, m) ==
    IF term.k = "Literal"
    THEN IF term.datatype = XSD_string THEN Return(m, term)
         ELSE IF term.language # Absent THEN Return(m, term)
         ELSE IF term.datatype = Absent /\ term.language = Absent THEN Return(m, term)
         ELSE Raise(m, ImplicitStringConversion)
    ELSE Raise(m, ImplicitStringConversion)

---------------------------------------------------------------------------
(* The evaluator and the operators *)

RECURSIVE process_json(_, _, _, _)
RECURSIVE list_loop(_, _, _, _, _, _)
RECURSIVE object_loop(_, _, _, _, _, _)
RECURSIVE ForEach_items(_, _, _, _, _, _)
RECURSIVE ForEach_operations(_, _, _, _, _, _)
RECURSIVE Concat_inputs(_, _, _, _, _, _)
RECURSIVE execute_json(_, _, _, _, _)

\* Variable.execute_json and Variable.execute
Variable_execute_json(arguments, context, variable_stack, m) ==
    LET value == process_json(arguments.value, context, variable_stack, m)
    IN  IF value.exc # NoExc THEN value
        ELSE Return(set_variable(arguments.name, value.res, variable_stack, value), None)

\* Value.execute
Value_execute(name, context, variable_stack, m) ==
    IF Head(name) = "$"
    THEN get_variable(Tail(name), variable_stack, m)
    ELSE IF context.k = "ResultRow"
         THEN IF \E i \in 1..Len(context.labels) : context.labels[i] = name
              THEN Return(m, IF name \in DOMAIN context.b THEN context.b[name] ELSE None)
              ELSE Raise(m, RowVariableNotFound)
         ELSE Raise(m, ContextVariableNotFound)

\* Value.execute_json
Value_execute_json(arguments, context, variable_stack, m) ==
    Value_execute(arguments.name, context, variable_stack, m)

\* Current.execute_json and Current.execute
Current_execute_json(arguments, context, variable_stack, m) ==
    IF context = None THEN Raise(m, CurrentRequiresContext)
    ELSE Return(m, context)

\* Execute.execute: the nested node runs on process_json's default stack
Execute_execute(operation, context, m) ==
    IF operation.j # "op" THEN Raise(m, ExecuteOperationType)
    ELSE process_json(operation, context, DefaultStack, m)

\* Execute.execute_json
Execute_execute_json(arguments, context, variable_stack, m) ==
    Execute_execute(arguments.operation, context, m)

\* A result without its datatype
Concat_execute_untyped(inputs, m) ==
    Return(m, Literal(inputs, Absent, Absent))

\* Concat.execute
Concat_execute(inputs, m) ==
    Return(m, Literal(inputs, XSD_string, Absent))

\* The loop of Concat.execute_json over arguments["inputs"]; result_str is
\* what Concat.execute builds from the processed inputs
Concat_inputs(inputs_data, i, context, variable_stack, m, result_str) ==
    IF i > Len(inputs_data) THEN Concat_execute(result_str, m)
    ELSE LET processed_input == process_json(inputs_data[i], context, variable_stack, m)
             input_literal == to_string_literal(processed_input.res, processed_input)
         IN  IF processed_input.exc # NoExc THEN processed_input
             ELSE IF input_literal.exc # NoExc THEN input_literal
             ELSE Concat_inputs(inputs_data, i + 1, context, variable_stack, input_literal,
                                result_str \o PyStr(input_literal.res))

\* Concat.execute_json
Concat_execute_json(arguments, context, variable_stack, m) ==
    Concat_inputs(arguments.inputs, 1, context, variable_stack, m, "")

\* re.sub(pattern, replacement, string), for the strings of the model
re_sub(pattern, replacement, string) ==
    CASE <<pattern, replacement, string>> = <<"a", "b", "a b">> -> "b b"
      [] <<pattern, replacement, string>> = <<"a", "b", "a/b">> -> "b/b"
      [] <<pattern, replacement, string>> = <<"a", "b", "a">> -> "b"
      [] <<pattern, replacement, string>> = <<"a", "b", "1">> -> "1"
      [] <<pattern, replacement, string>> = <<"a", "b", "true">> -> "true"
      [] <<pattern, replacement, string>> = <<"a", "b", "http://e/1">> -> "http://e/1"
      [] <<pattern, replacement, string>> = <<"a", "b", "b0">> -> "b0"
      [] <<pattern, replacement, string>> = <<"a b", "b", "a b">> -> "b"
      [] <<pattern, replacement, string>> = <<"a/b", "b", "a b">> -> "a b"
      [] <<pattern, replacement, string>> = <<"1", "b", "a b">> -> "a b"
      [] <<pattern, replacement, string>> = <<"true", "b", "a b">> -> "a b"
      [] <<pattern, replacement, string>> = <<"http://e/1", "b", "a b">> -> "a b"
      [] <<pattern, replacement, string>> = <<"b0", "b", "a b">> -> "a b"
      [] <<pattern, replacement, string>> = <<"a", "a b", "a b">> -> "a b b"
      [] <<pattern, replacement, string>> = <<"a", "a/b", "a b">> -> "a/b b"
      [] <<pattern, replacement, string>> = <<"a", "a", "a b">> -> "a b"
      [] <<pattern, replacement, string>> = <<"a", "1", "a b">> -> "1 b"
      [] <<pattern, replacement, string>> = <<"a", "true", "a b">> -> "true b"
      [] <<pattern, replacement, string>> = <<"a", "http://e/1", "a b">> -> "http://e/1 b"
      [] <<pattern, replacement, string>> = <<"a", "b0", "a b">> -> "b0 b"
      [] <<pattern, replacement, string>> = <<"a", "1", "a">> -> "1"

\* urllib.parse.quote(string, safe=""), for the strings of the model
quote(string) ==
    CASE string = "a b" -> "a%20b"
      [] string = "a/b" -> "a%2Fb"
      [] string = "a" -> "a"
      [] string = "1" -> "1"
      [] string = "true" -> "true"
      [] string = "http://e/1" -> "http%3A%2F%2Fe%2F1"
      [] string = "b0" -> "b0"

\* is_string_compatible in Replace.execute
is_string_compatible(lit) ==
    /\ lit.k = "Literal"
    /\ \/ lit.datatype = XSD_string
       \/ lit.datatype = Absent /\ lit.language # Absent
       \/ lit.datatype = Absent /\ lit.language = Absent

\* Replace.execute
Replace_execute(input_str, pattern, replacement, m) ==
    IF \/ ~is_string_compatible(input_str)
       \/ ~is_string_compatible(pattern)
       \/ ~is_string_compatible(replacement)
    THEN Raise(m, ReplaceInputType)
    ELSE Return(m, Literal(re_sub(PyStr(pattern), PyStr(replacement), PyStr(input_str)),
                           XSD_string, Absent))

\* Replace.execute_json
Replace_execute_json(arguments, context, variable_stack, m) ==
    LET input_data == process_json(arguments.input, context, variable_stack, m)
        input_literal == to_string_literal(input_data.res, input_data)
        pattern_data == process_json(arguments.pattern, context, variable_stack, input_literal)
        pattern_literal == to_string_literal(pattern_data.res, pattern_data)
        replacement_data ==
            process_json(arguments.replacement, context, variable_stack, pattern_literal)
        replacement_literal == to_string_literal(replacement_data.res, replacement_data)
    IN  IF input_data.exc # NoExc THEN input_data
        ELSE IF input_literal.exc # NoExc THEN input_literal
        ELSE IF pattern_data.exc # NoExc THEN pattern_data
        ELSE IF pattern_literal.exc # NoExc THEN pattern_literal
        ELSE IF replacement_data.exc # NoExc THEN replacement_data
        ELSE IF replacement_literal.exc # NoExc THEN replacement_literal
        ELSE Replace_execute(input_literal.res, pattern_literal.res, replacement_literal.res,
                             replacement_literal)

\* EncodeForURI.execute
EncodeForURI_execute(input_str, m) ==
    IF input_str.k # "Literal" THEN Raise(m, EncodeForURIInputType)
    ELSE Return(m, Literal(quote(PyStr(input_str)), XSD_string, Absent))

\* EncodeForURI.execute_json
EncodeForURI_execute_json(arguments, context, variable_stack, m) ==
    LET input_data == process_json(arguments.input, context, variable_stack, m)
        input_literal == to_string_literal(input_data.res, input_data)
    IN  IF input_data.exc # NoExc THEN input_data
        ELSE IF input_literal.exc # NoExc THEN input_literal
        ELSE EncodeForURI_execute(input_literal.res, input_literal)

\* key in data and data.get(key), on the fields of a dict
HasKey(fields, key) == \E i \in 1..Len(fields) : fields[i][1] = key
DictGet(fields, key) ==
    IF HasKey(fields, key)
    THEN fields[CHOOSE i \in 1..Len(fields) : fields[i][1] = key][2]
    ELSE None

\* Operation.json_to_rdflib on an evaluated value: a dict with "type" and
\* "value" is read as a SPARQL binding, a term or a Result is returned as
\* it is, anything else becomes the xsd:string literal of its str()
json_to_rdflib_evaluated(data, m) ==
    IF data.k = "dict" /\ HasKey(data.fields, "type") /\ HasKey(data.fields, "value")
    THEN LET type_str == PyStr(DictGet(data.fields, "type"))
             value_str == PyStr(DictGet(data.fields, "value"))
             datatype == DictGet(data.fields, "datatype")
             lang == DictGet(data.fields, "xml:lang")
         IN  IF type_str = "uri" THEN Return(m, URIRef(value_str))
             ELSE IF type_str = "literal"
             THEN Return(m, Literal(value_str,
                                    IF datatype # None THEN PyStr(datatype) ELSE Absent,
                                    IF lang # None THEN PyStr(lang) ELSE Absent))
             ELSE IF type_str = "bnode" THEN Return(m, BNode(value_str))
             ELSE Raise(m, UnknownBindingType)
    ELSE IF IsNode(data) \/ data.k = "Result" THEN Return(m, data)
    ELSE Return(m, Literal(CASE data = None -> "None" [] data = EmptyContext -> "{}"
                             [] OTHER -> "str(data)",
                           XSD_string, Absent))

\* urllib.parse.urljoin(base, url), for the strings of the model
urljoin(base, url) ==
    CASE url = "http://e/1" -> "http://e/1"
      [] <<base, url>> = <<"http://example.org/", "foo">> -> "http://example.org/foo"
      [] <<base, url>> = <<"http://example.org/", "../c">> -> "http://example.org/c"
      [] <<base, url>> = <<"http://example.org/", "1">> -> "http://example.org/1"
      [] <<base, url>> = <<"http://example.org/a/b", "foo">> -> "http://example.org/a/foo"
      [] <<base, url>> = <<"http://example.org/a/b", "../c">> -> "http://example.org/c"
      [] <<base, url>> = <<"http://example.org/a/b", "1">> -> "http://example.org/a/1"

\* ResolveURI.execute
ResolveURI_execute(base, relative, m) ==
    IF base.k # "URIRef" THEN Raise(m, ResolveURIBaseType)
    ELSE IF relative.k # "Literal" THEN Raise(m, ResolveURIRelativeType)
    ELSE Return(m, URIRef(urljoin(PyStr(base), PyStr(relative))))

\* ResolveURI.execute_json
ResolveURI_execute_json(arguments, context, variable_stack, m) ==
    LET base_data == process_json(arguments.base, context, variable_stack, m)
        base == json_to_rdflib_evaluated(base_data.res, base_data)
        relative_data == process_json(arguments.relative, context, variable_stack, base)
        relative == json_to_rdflib_evaluated(relative_data.res, relative_data)
    IN  IF base_data.exc # NoExc THEN base_data
        ELSE IF base.exc # NoExc THEN base
        ELSE IF base.res.k # "URIRef" THEN Raise(base, ResolveURIBaseType)
        ELSE IF relative_data.exc # NoExc THEN relative_data
        ELSE IF relative.exc # NoExc THEN relative
        ELSE IF relative.res.k # "Literal" THEN Raise(relative, ResolveURIRelativeType)
        ELSE ResolveURI_execute(base.res, relative.res, relative)

\* A Graph += that gives the blank nodes of the added graph new ids
Graph_iadd_renaming(merged_graph, graph) ==
    LET fresh(term) == IF term.k = "BNode" THEN BNode(term.lex \o "'") ELSE term
    IN  Graph(merged_graph.triples
                \cup {<<fresh(t[1]), t[2], fresh(t[3])>> : t \in graph.triples})

\* merged_graph += graph: rdflib's Graph.__iadd__ adds the triples of the
\* other graph, blank node ids unchanged
Graph_iadd(merged_graph, graph) == Graph(merged_graph.triples \cup graph.triples)

\* for i, graph in enumerate(graphs): merged_graph += graph
RECURSIVE Merge_loop(_, _, _)
Merge_loop(graphs, i, merged_graph) ==
    IF i > Len(graphs) THEN merged_graph
    ELSE Merge_loop(graphs, i + 1, Graph_iadd(merged_graph, graphs[i]))

\* Merge.execute
Merge_execute(graphs, m) ==
    IF \E i \in 1..Len(graphs) : graphs[i].k # "Graph" THEN Raise(m, MergeItemType)
    ELSE Return(m, Merge_loop(graphs, 1, Graph({})))

\* Merge.execute_json. An item that is a dict is parsed as JSON-LD by
\* rdflib; the programs of the model give Merge no dict.
Merge_execute_json(arguments, context, variable_stack, m) ==
    LET graphs_data == process_json(arguments.graphs, context, variable_stack, m)
    IN  IF graphs_data.exc # NoExc THEN graphs_data
        ELSE IF graphs_data.res.k # "list" THEN Raise(graphs_data, MergeGraphsType)
        ELSE IF \E i \in 1..Len(graphs_data.res.items) :
                    graphs_data.res.items[i].k \notin {"Graph", "dict"}
        THEN Raise(graphs_data, MergeItemType)
        ELSE Merge_execute(graphs_data.res.items, graphs_data)

---------------------------------------------------------------------------
(* Substitute and ParameterizedSparqlString. Text is scanned as the       *)
(* sequence of its characters.                                            *)

\* The characters of a string, for the strings of the model
Chars(string) ==
    CASE string = "x" -> <<"x">>
      [] string = "y" -> <<"y">>
      [] string = "?x" -> <<"?", "x">>
      [] string = "?y" -> <<"?", "y">>
      [] string = "?x ?x" -> <<"?", "x", " ", "?", "x">>
      [] string = "?x?x" -> <<"?", "x", "?", "x">>
      [] string = "?xy ?x" -> <<"?", "x", "y", " ", "?", "x">>
      [] string = "<a> ?p $x." -> <<"<", "a", ">", " ", "?", "p", " ", "$", "x", ".">>
      [] string = "ASK { ?x a ?x }" ->
            <<"A", "S", "K", " ", "{", " ", "?", "x", " ", "a", " ", "?", "x", " ", "}">>

\* The characters that \w matches, among those of the model
WordChars == {"x", "y", "p", "a", "A", "S", "K", "_", "0", "1"}

\* ParameterizedSparqlString._format_node
format_node(node) ==
    IF node.k = "URIRef" THEN "<" \o PyStr(node) \o ">"
    ELSE IF node.k = "Literal"
    THEN IF node.language # Absent THEN "\"" \o PyStr(node) \o "\"@" \o node.language
         ELSE IF node.datatype # Absent
         THEN "\"" \o PyStr(node) \o "\"^^<" \o node.datatype \o ">"
         ELSE "\"" \o PyStr(node) \o "\""
    ELSE "_: " \o PyStr(node)

\* a match of ([?$]{var})([^\w]|$) that starts at character i
pattern_match(query, i, var) ==
    /\ query[i] \in {"?", "$"}
    /\ i + Len(var) <= Len(query)
    /\ SubSeq(query, i + 1, i + Len(var)) = var
    /\ i + Len(var) = Len(query) \/ query[i + Len(var) + 1] \notin WordChars

\* pattern.sub(rf"{safe_value}\2", query), from character i on: the
\* character after a match is part of the match
RECURSIVE pattern_sub(_, _, _, _)
pattern_sub(query, i, var, safe_value) ==
    IF i > Len(query) THEN ""
    ELSE IF pattern_match(query, i, var)
    THEN LET after == i + Len(var) + 1
         IN  IF after > Len(query) THEN safe_value
             ELSE safe_value \o query[after] \o pattern_sub(query, after + 1, var, safe_value)
    ELSE query[i] \o pattern_sub(query, i + 1, var, safe_value)

\* ParameterizedSparqlString._safe_replace
safe_replace(query, var, value) == pattern_sub(query, 1, var, format_node(value))

\* ParameterizedSparqlString.set_param: the name without its `?`
set_param(var) == IF var[1] = "?" THEN SubSeq(var, 2, Len(var)) ELSE var

\* ParameterizedSparqlString.to_string with one parameter, no positional
\* parameter, no prefix and no base: the prefix declarations, a newline
\* and the query
to_string(command, var, value) ==
    LET prefix_decls == ""
    IN  prefix_decls \o "\n" \o safe_replace(command, var, value)

\* Substitute.execute
Substitute_execute(query, var, binding_value, m) ==
    IF query.k # "Literal" THEN Raise(m, SubstituteQueryType)
    ELSE IF var.k # "Literal" THEN Raise(m, SubstituteVarType)
    ELSE IF ~IsNode(binding_value) THEN Raise(m, SubstituteBindingType)
    ELSE Return(m, Literal(to_string(Chars(PyStr(query)), set_param(Chars(PyStr(var))),
                                     binding_value),
                           XSD_string, Absent))

\* Substitute.execute_json
Substitute_execute_json(arguments, context, variable_stack, m) ==
    LET query_data == process_json(arguments.query, context, variable_stack, m)
        query == json_to_rdflib_evaluated(query_data.res, query_data)
        var_data == process_json(arguments.var, context, variable_stack, query)
        var == json_to_rdflib_evaluated(var_data.res, var_data)
        binding_data == process_json(arguments.binding, context, variable_stack, var)
        binding_value == json_to_rdflib_evaluated(binding_data.res, binding_data)
    IN  IF query_data.exc # NoExc THEN query_data
        ELSE IF query.exc # NoExc THEN query
        ELSE IF query.res.k # "Literal" THEN Raise(query, SubstituteQueryType)
        ELSE IF var_data.exc # NoExc THEN var_data
        ELSE IF var.exc # NoExc THEN var
        ELSE IF var.res.k # "Literal" THEN Raise(var, SubstituteVarType)
        ELSE IF binding_data.exc # NoExc THEN binding_data
        ELSE IF binding_value.exc # NoExc THEN binding_value
        ELSE Substitute_execute(query.res, var.res, binding_value.res, binding_value)

\* Uri.execute_json and Uri.execute
Uri_execute_json(arguments, context, variable_stack, m) ==
    LET input_data == process_json(arguments.input, context, variable_stack, m)
    IN  IF input_data.exc # NoExc THEN input_data
        ELSE IF ~IsNode(input_data.res) THEN Raise(input_data, UriInputType)
        ELSE Return(input_data, URIRef(PyStr(input_data.res)))

\* JSONResult._parse_binding
parse_binding(binding_dict) ==
    IF binding_dict.type = "uri" THEN URIRef(binding_dict.value)
    ELSE IF binding_dict.type = "literal"
    THEN Literal(binding_dict.value, binding_dict.datatype, binding_dict.lang)
    ELSE BNode(binding_dict.value)

\* JSONResult.from_json
from_json(json_dict) ==
    Result(json_dict.vars,
           [r \in 1..Len(json_dict.bindings) |->
               [var \in DOMAIN json_dict.bindings[r] |-> parse_binding(json_dict.bindings[r][var])]])

\* SELECT.execute: the client returns the endpoint's answer
SELECT_execute(endpoint, query, m) ==
    Return(m, from_json(m.server))

\* SELECT.execute_json
SELECT_execute_json(arguments, context, variable_stack, m) ==
    LET endpoint_data == process_json(arguments.endpoint, context, variable_stack, m)
        query_data == process_json(arguments.query, context, variable_stack, endpoint_data)
    IN  IF endpoint_data.exc # NoExc THEN endpoint_data
        ELSE IF endpoint_data.res.k # "URIRef" THEN Raise(endpoint_data, SelectEndpointType)
        ELSE IF query_data.exc # NoExc THEN query_data
        ELSE IF query_data.res.k # "Literal" THEN Raise(query_data, SelectQueryType)
        ELSE IF query_data.res.datatype # XSD_string THEN Raise(query_data, SelectQueryType)
        ELSE SELECT_execute(endpoint_data.res, query_data.res, query_data)

\* list(select_data): the rows of a Result, each a ResultRow
ResultRows(result) ==
    [r \in 1..Len(result.bindings) |-> ResultRow(result.bindings[r], result.vars)]

\* The last result is kept even when it is None
ForEach_operations_last(operation, j, item, variable_stack, m, last_result) ==
    IF j > Len(operation) THEN Return(m, last_result)
    ELSE LET result == process_json(operation[j], item, variable_stack, m)
         IN  IF result.exc # NoExc THEN result
             ELSE ForEach_operations(operation, j + 1, item, variable_stack, result,
                                     result.res)

\* for op in operation: the operations of a list body on one item;
\* last_result is the last result so far that is not None
ForEach_operations(operation, j, item, variable_stack, m, last_result) ==
    IF j > Len(operation) THEN Return(m, last_result)
    ELSE LET result == process_json(operation[j], item, variable_stack, m)
         IN  IF result.exc # NoExc THEN result
             ELSE ForEach_operations(operation, j + 1, item, variable_stack, result,
                                     IF result.res # None THEN result.res ELSE last_result)

\* The body evaluated in the default context instead of the item
ForEach_item_default_context(operation, item, variable_stack, m) ==
    IF operation.j = "list"
    THEN ForEach_operations(operation.items, 1, EmptyContext, variable_stack,
                            LogItem(m, item), None)
    ELSE process_json(operation, EmptyContext, variable_stack, LogItem(m, item))

\* The body of ForEach's loop for one item: what the item contributes
ForEach_item(operation, item, variable_stack, m) ==
    IF operation.j = "list"
    THEN ForEach_operations(operation.items, 1, item, variable_stack, LogItem(m, item), None)
    ELSE process_json(operation, item, variable_stack, LogItem(m, item))

\* A loop that goes on to the next item when the body fails
ForEach_items_tolerant(items, i, operation, variable_stack, m, results) ==
    IF i > Len(items) THEN Return(m, PyList(results))
    ELSE LET result == ForEach_item(operation, items[i], variable_stack, m)
         IN  ForEach_items(items, i + 1, operation, variable_stack,
                           Return(result, None),
                           IF result.exc = NoExc /\ result.res # None
                           THEN Append(results, result.res)
                           ELSE results)

\* for item in items: the loop of ForEach.execute_json
ForEach_items(items, i, operation, variable_stack, m, results) ==
    IF i > Len(items) THEN Return(m, PyList(results))
    ELSE LET result == ForEach_item(operation, items[i], variable_stack, m)
         IN  IF result.exc # NoExc THEN result
             ELSE ForEach_items(items, i + 1, operation, variable_stack, result,
                                IF result.res # None THEN Append(results, result.res)
                                ELSE results)

\* ForEach.execute_json
ForEach_execute_json(arguments, context, variable_stack, m) ==
    LET select_data == process_json(arguments.select, context, variable_stack, m)
    IN  IF select_data.exc # NoExc THEN select_data
        ELSE IF select_data.res.k = "list"
        THEN ForEach_items(select_data.res.items, 1, arguments.operation,
                           variable_stack, select_data, <<>>)
        ELSE IF select_data.res.k = "Result"
        THEN ForEach_items(ResultRows(select_data.res), 1, arguments.operation,
                           variable_stack, select_data, <<>>)
        ELSE Raise(select_data, ForEachSelectType)

\* A variable name as one string
RECURSIVE JoinChars(_)
JoinChars(name) == IF name = <<>> THEN "" ELSE Head(name) \o JoinChars(Tail(name))

\* table.bindings: the solutions of a Result, each a dict from the names
\* of its bound variables to their terms
Result_bindings(table) ==
    PyList([r \in 1..Len(table.bindings) |->
               LET bound == SelectSeq(table.vars, LAMBDA var : var \in DOMAIN table.bindings[r])
               IN  PyDict([i \in 1..Len(bound) |->
                              <<JoinChars(bound[i]), table.bindings[r][bound[i]]>>])])

\* Bindings.execute
Bindings_execute(table, m) ==
    IF table.k # "Result" THEN Raise(m, BindingsTableType)
    ELSE Return(m, Result_bindings(table))

\* Bindings.execute_json
Bindings_execute_json(arguments, context, variable_stack, m) ==
    LET table_data == process_json(arguments.table, context, variable_stack, m)
    IN  IF table_data.exc # NoExc THEN table_data
        ELSE IF table_data.res.k # "Result" THEN Raise(table_data, BindingsTableType)
        ELSE Bindings_execute(table_data.res, table_data)

\* isinstance(v, int)
IsInt(v) == v.k = "int"

\* list(input_data) for the values that have __iter__: a list, the rows of
\* a Result, the keys of a dict, the characters of a term
Iterate(input_data) ==
    CASE input_data.k = "list" -> input_data.items
      [] input_data.k = "Result" -> ResultRows(input_data)
      [] input_data.k = "dict" ->
            [i \in 1..Len(input_data.fields) |-> input_data.fields[i][1]]
      [] OTHER -> [i \in 1..Len(input_data.lex) |-> PyChar(input_data, i)]

\* Filter._apply_positional_filter
Filter_apply_positional_filter(bindings, position, m) ==
    IF position < 1 THEN Raise(m, FilterPositionLow)
    ELSE IF position > Len(bindings) THEN Raise(m, FilterPositionHigh)
    ELSE Return(m, PyList(<<bindings[position]>>))

\* Filter.execute
Filter_execute(input_data, expression, m) ==
    IF input_data.k \in {"None", "int"} THEN Raise(m, FilterInputType)
    ELSE LET filtered_items ==
                 Filter_apply_positional_filter(Iterate(input_data), expression.n, m)
         IN  IF filtered_items.exc # NoExc THEN filtered_items
             ELSE IF Len(filtered_items.res.items) = 1
             THEN Return(filtered_items, filtered_items.res.items[1])
             ELSE filtered_items

\* Filter.execute_json
Filter_execute_json(arguments, context, variable_stack, m) ==
    LET input_data == process_json(arguments.input, context, variable_stack, m)
    IN  IF input_data.exc # NoExc THEN input_data
        ELSE LET expression_data ==
                     process_json(arguments.expression, context, variable_stack, input_data)
             IN  IF expression_data.exc # NoExc THEN expression_data
                 ELSE IF ~IsInt(expression_data.res)
                 THEN Raise(expression_data, FilterExpressionType)
                 ELSE Filter_execute(input_data.res, expression_data.res, expression_data)

\* operation.execute_json(op_args, variable_stack), by operator class
execute_json(op_name, arguments, context, variable_stack, m) ==
    CASE op_name = "Variable" -> Variable_execute_json(arguments, context, variable_stack, m)
      [] op_name = "Value" -> Value_execute_json(arguments, context, variable_stack, m)
      [] op_name = "Current" -> Current_execute_json(arguments, context, variable_stack, m)
      [] op_name = "ForEach" -> ForEach_execute_json(arguments, context, variable_stack, m)
      [] op_name = "Execute" -> Execute_execute_json(arguments, context, variable_stack, m)
      [] op_name = "Concat" -> Concat_execute_json(arguments, context, variable_stack, m)
      [] op_name = "Uri" -> Uri_execute_json(arguments, context, variable_stack, m)
      [] op_name = "SELECT" -> SELECT_execute_json(arguments, context, variable_stack, m)
      [] op_name = "Filter" -> Filter_execute_json(arguments, context, variable_stack, m)
      [] op_name = "Replace" -> Replace_execute_json(arguments, context, variable_stack, m)
      [] op_name = "EncodeForURI" ->
            EncodeForURI_execute_json(arguments, context, variable_stack, m)
      [] op_name = "ResolveURI" ->
            ResolveURI_execute_json(arguments, context, variable_stack, m)
      [] op_name = "Substitute" ->
            Substitute_execute_json(arguments, context, variable_stack, m)
      [] op_name = "Merge" -> Merge_execute_json(arguments, context, variable_stack, m)
      [] op_name = "Bindings" -> Bindings_execute_json(arguments, context, variable_stack, m)

\* variable_stack.copy(), held as list `id`: a list of the same dicts
copy_as(id, variable_stack, m) ==
    [m EXCEPT !.lists = [l \in DOMAIN m.lists \cup {id} |->
                            IF l = id THEN m.lists[variable_stack] ELSE m.lists[l]]]

\* current_stack = variable_stack.copy(), a new list object
copy(variable_stack, m) ==
    LET id == TmpStack(Cardinality(DOMAIN m.lists))
    IN  [id |-> id, m |-> copy_as(id, variable_stack, m)]

\* An element evaluated on a copy of its own of the list's stack
list_item_own_copy(item, context, current_stack, m) ==
    LET own == copy(current_stack, m)
    IN  process_json(item, context, own.id, own.m)

\* An element whose failure is dropped: the loop goes on with null
list_item_tolerant(item, context, current_stack, m) ==
    LET result == process_json(item, context, current_stack, m)
    IN  IF result.exc # NoExc THEN [result EXCEPT !.exc = NoExc, !.res = None] ELSE result

\* result = cls.process_json(settings, item, context, current_stack):
\* one element of a list, evaluated on the list's current_stack
list_item(item, context, current_stack, m) ==
    process_json(item, context, current_stack, m)

\* for item in json_data: the loop of process_json over a list
list_loop(json_data, i, context, current_stack, m, results) ==
    IF i > Len(json_data) THEN Return(m, PyList(results))
    ELSE LET result == list_item(json_data[i], context, current_stack, m)
         IN  IF result.exc # NoExc THEN result
             ELSE list_loop(json_data, i + 1, context, current_stack, result,
                            Append(results, result.res))

\* A dict comprehension that keeps the JSON values as they are
object_loop_raw(fields, i, context, variable_stack, m, out) ==
    Return(m, PyDict(fields))

\* The dict comprehension of process_json over a dict without @op
object_loop(fields, i, context, variable_stack, m, out) ==
    IF i > Len(fields) THEN Return(m, PyDict(out))
    ELSE LET v == process_json(fields[i][2], context, variable_stack, m)
         IN  IF v.exc # NoExc THEN v
             ELSE object_loop(fields, i + 1, context, variable_stack, v,
                              Append(out, <<fields[i][1], v.res>>))

\* A process_json that evaluates the argument `input` of a node before it
\* looks the operator up
process_json_arguments_first(json_data, context, variable_stack, m) ==
    IF json_data.j = "op"
    THEN IF json_data.op \notin registry
         THEN LET input == process_json(json_data.args.input, context, variable_stack, m)
              IN  IF input.exc # NoExc THEN input ELSE Raise(input, UnknownOperation)
         ELSE execute_json(json_data.op, json_data.args, context, variable_stack,
                           Instantiate(m, json_data.op, context))
    ELSE IF json_data.j = "object"
    THEN object_loop(json_data.fields, 1, context, variable_stack, m, <<>>)
    ELSE IF json_data.j = "list"
    THEN LET current_stack == copy(variable_stack, m)
         IN  list_loop(json_data.items, 1, context, current_stack.id, current_stack.m, <<>>)
    ELSE Return(m, json_to_rdflib(json_data))

\* Operation.process_json
process_json(json_data, context, variable_stack, m) ==
    IF json_data.j = "op"
    THEN IF json_data.op \notin registry THEN Raise(m, UnknownOperation)
         ELSE execute_json(json_data.op, json_data.args, context, variable_stack,
                           Instantiate(m, json_data.op, context))
    ELSE IF json_data.j = "object"
    THEN object_loop(json_data.fields, 1, context, variable_stack, m, <<>>)
    ELSE IF json_data.j = "list"
    THEN LET current_stack == copy(variable_stack, m)
         IN  list_loop(json_data.items, 1, context, current_stack.id, current_stack.m, <<>>)
    ELSE Return(m, json_to_rdflib(json_data))

---------------------------------------------------------------------------
(* Reclaiming objects nothing refers to any more *)

RECURSIVE Flatten(_, _)
Flatten(ls, i) == IF i = 0 THEN <<>> ELSE Flatten(ls, i - 1) \o ls[RootOrder[i]]

RECURSIVE Distinct(_)
Distinct(s) ==
    IF s = <<>> THEN <<>>
    ELSE LET d == Distinct(SubSeq(s, 1, Len(s) - 1))
         IN  IF \E i \in 1..Len(d) : d[i] = s[Len(s)] THEN d ELSE Append(d, s[Len(s)])

Index(s, x) == CHOOSE i \in 1..Len(s) : s[i] = x

\* The lists that are still held and the dicts in them, renumbered
Collect(m) ==
    LET live == Distinct(Flatten(m.lists, Len(RootOrder)))
    IN  [lists |-> [l \in RootLists |->
                      [i \in 1..Len(m.lists[l]) |-> Index(live, m.lists[l][i])]],
         dicts |-> [i \in 1..Len(live) |-> m.dicts[live[i]]]]

---------------------------------------------------------------------------
(* The registry: calls of Operation.register *)

\* The classes found in the operator packages: some share a name
OperationClass(name, module) == [name |-> name, module |-> module, operation |-> TRUE]
Classes ==
    {OperationClass("GET", "operations/get.py"),
     OperationClass("GET", "operations/linked_data/get.py"),
     OperationClass("SELECT", "operations/select.py"),
     OperationClass("SELECT", "operations/sparql/select.py"),
     OperationClass("Filter", "operations/filter.py"),
     [name |-> "MCPTool", module |-> "mcp_tool.py", operation |-> FALSE]}

RegisterNotSubclass == "ValueError: Must be a subclass of Operation"

\* registry: ClassVar[Dict[str, Type["Operation"]]] = {}, before any call
Unregistered ==
    [registry |-> [n \in {} |-> None], operation_cls |-> None, exc |-> NoExc, calls |-> 0]

\* Operation.register
register(operation_cls) ==
    /\ reg.calls < MaxRegistrations
    /\ reg' = IF ~operation_cls.operation
              THEN [reg EXCEPT !.operation_cls = operation_cls, !.exc = RegisterNotSubclass,
                               !.calls = @ + 1]
              ELSE [reg EXCEPT !.registry = DictSet(@, operation_cls.name, operation_cls),
                               !.operation_cls = operation_cls, !.exc = NoExc,
                               !.calls = @ + 1]
    /\ UNCHANGED <<lists, dicts, ev, http>>

---------------------------------------------------------------------------
(* HTTP clients: LinkedDataClient and SPARQLClient over urllib *)

\* urllib.request.Request(url, data=..., headers=..., method=...)
Request(full_url, data, headers, method) ==
    [full_url |-> full_url, data |-> data, headers |-> headers, method |-> method]

NoData == "None"
NTriples == "<http://e/s> <http://e/p> <http://e/o> ."
SparqlUpdate == "INSERT DATA {}"
AcceptRdf == "application/n-triples, text/turtle, application/ld+json, application/rdf+xml"

\* The requests the methods of LinkedDataClient build
LinkedDataClient_get(url) == Request(url, NoData, {<<"Accept", AcceptRdf>>}, "GET")
LinkedDataClient_post(url, data) ==
    Request(url, data, {<<"Content-Type", "application/n-triples">>,
                        <<"Accept", "application/n-triples">>}, "POST")
LinkedDataClient_put(url, data) ==
    Request(url, data, {<<"Content-Type", "application/n-triples">>,
                        <<"Accept", "application/n-triples">>}, "PUT")
LinkedDataClient_delete(url) == Request(url, NoData, {}, "DELETE")
LinkedDataClient_patch(url, sparql_update) ==
    Request(url, sparql_update, {<<"Content-Type", "application/sparql-update">>,
                                 <<"Accept", "application/n-triples">>}, "PATCH")
\* The request SPARQLClient.query builds for a SELECT
SPARQLClient_query(endpoint_url, query_string) ==
    Request(endpoint_url \o "?query=" \o query_string, NoData,
            {<<"Accept", "application/sparql-results+json">>}, "GET")

\* The Retry-After header of a response: absent, a number of seconds, an
\* HTTP-date `n` seconds from now, or text that is neither
NoRetryAfter == [form |-> "absent", n |-> 0]
Seconds(n) == [form |-> "seconds", n |-> n]
HttpDate(n) == [form |-> "date", n |-> n]
Unparsable == [form |-> "other", n |-> 0]

\* A response of the server
Response(status, retry_after, location) ==
    [status |-> status, retry_after |-> retry_after, location |-> location]
NoResponse == Response(0, NoRetryAfter, "")
OK == Response(200, NoRetryAfter, "")
NotFound == Response(404, NoRetryAfter, "")
ServiceUnavailable == Response(503, Seconds(0), "")
TooManyRequests(retry_after) == Response(429, retry_after, "")
Redirect(code, newurl) == Response(code, NoRetryAfter, newurl)

\* Exceptions of the client
NoError == [type |-> "None", response |-> NoResponse]
HTTPError(response) == [type |-> "HTTPError", response |-> response]
\* time.sleep of a negative number
SleepValueError == [type |-> "ValueError", response |-> NoResponse]

\* max_retries: int = 5
DefaultMaxRetries == 5

RECURSIVE Pow2(_)
Pow2(n) == IF n = 0 THEN 1 ELSE 2 * Pow2(n - 1)
Min(a, b) == IF a < b THEN a ELSE b

\* min(1 * (2 ** attempt), 60)
backoff(attempt) == Min(1 * Pow2(attempt), 60)

\* The wait_time _request_with_retry computes from the Retry-After header
wait_time(retry_after, attempt) ==
    CASE retry_after.form = "absent" -> backoff(attempt)
      [] retry_after.form = "seconds" -> retry_after.n
      [] retry_after.form = "date" -> IF retry_after.n < 0 THEN 0 ELSE retry_after.n
      [] OTHER -> backoff(attempt)

NoRequest ==
    [pc |-> "idle", client |-> "None", request |-> Request("", NoData, {}, ""),
     current |-> Request("", NoData, {}, ""), follows308 |-> FALSE,
     max_retries |-> 0, attempt |-> 0, sent |-> <<>>, responses |-> <<>>,
     waits |-> <<>>, res |-> NoResponse, exc |-> NoError]

\* urllib's HTTPRedirectHandler.redirect_request
HTTPRedirectHandler_redirect_request(req, code, newurl) ==
    IF \/ code \in {301, 302, 303, 307, 308} /\ req.method \in {"GET", "HEAD"}
       \/ code \in {301, 302, 303} /\ req.method = "POST"
    THEN [exc |-> FALSE,
          new |-> Request(newurl, NoData,
                          {h \in req.headers : h[1] \notin {"Content-Length", "Content-Type"}},
                          IF req.method = "HEAD" THEN "HEAD" ELSE "GET")]
    ELSE [exc |-> TRUE, new |-> req]

\* A handler that does not override redirect_request
redirect_request_inherited(req, code, newurl) ==
    HTTPRedirectHandler_redirect_request(req, code, newurl)

\* HTTPRedirectHandler308.redirect_request
redirect_request(req, code, newurl) ==
    IF code = 308
    THEN [exc |-> FALSE, new |-> Request(newurl, req.data, req.headers, req.method)]
    ELSE HTTPRedirectHandler_redirect_request(req, code, newurl)

\* The redirect handler of the client's opener: LinkedDataClient installs
\* HTTPRedirectHandler308, SPARQLClient keeps urllib's
opener_redirect_request(client, req, code, newurl) ==
    IF client = "LinkedDataClient" THEN redirect_request(req, code, newurl)
    ELSE HTTPRedirectHandler_redirect_request(req, code, newurl)

\* self.opener.open(request), as far as one response of the server takes
\* it: the response returned, an HTTPError raised, or a redirect followed.
\* An opener of a Python before 3.11 has no handler for 308.
opener_open(h, response) ==
    IF response.status = 200 THEN [to |-> "return", new |-> h.current]
    ELSE IF response.status \in {301, 302, 303, 307} \/ (response.status = 308 /\ h.follows308)
    THEN LET r == opener_redirect_request(h.client, h.current, response.status,
                                          response.location)
         IN  IF r.exc THEN [to |-> "raise", new |-> h.current]
             ELSE [to |-> "redirect", new |-> r.new]
    ELSE [to |-> "raise", new |-> h.current]

\* An except clause that gives up one attempt early
request_with_retry_except_early(h, response) ==
    IF response.status # 429 \/ h.attempt + 1 >= h.max_retries
    THEN [h EXCEPT !.pc = "done", !.exc = HTTPError(response)]
    ELSE [h EXCEPT !.attempt = @ + 1,
                   !.waits = Append(@, wait_time(response.retry_after, h.attempt)),
                   !.current = h.request]

\* An except clause that gives up one attempt late
request_with_retry_except_late(h, response) ==
    IF response.status # 429 \/ h.attempt > h.max_retries
    THEN [h EXCEPT !.pc = "done", !.exc = HTTPError(response)]
    ELSE LET wait == wait_time(response.retry_after, h.attempt)
         IN  IF wait < 0
             THEN [h EXCEPT !.pc = "done", !.attempt = @ + 1, !.exc = SleepValueError]
             ELSE [h EXCEPT !.attempt = @ + 1, !.waits = Append(@, wait),
                            !.current = h.request]

\* An except clause that also retries when the service is unavailable
request_with_retry_except_unavailable(h, response) ==
    IF response.status \notin {429, 503} \/ h.attempt >= h.max_retries
    THEN [h EXCEPT !.pc = "done", !.exc = HTTPError(response)]
    ELSE LET wait == wait_time(response.retry_after, h.attempt)
         IN  IF wait < 0
             THEN [h EXCEPT !.pc = "done", !.attempt = @ + 1, !.exc = SleepValueError]
             ELSE [h EXCEPT !.attempt = @ + 1, !.waits = Append(@, wait),
                            !.current = h.request]

\* The except clause of LinkedDataClient._request_with_retry for an
\* HTTPError, and the sleep that ends the iteration
request_with_retry_except(h, response) ==
    IF response.status # 429 THEN [h EXCEPT !.pc = "done", !.exc = HTTPError(response)]
    ELSE IF h.attempt >= h.max_retries
    THEN [h EXCEPT !.pc = "done", !.exc = HTTPError(response)]
    ELSE LET wait == wait_time(response.retry_after, h.attempt)
         IN  IF wait < 0
             THEN [h EXCEPT !.pc = "done", !.attempt = @ + 1, !.exc = SleepValueError]
             ELSE [h EXCEPT !.attempt = @ + 1, !.waits = Append(@, wait),
                            !.current = h.request]

\* SPARQLClient.query: response = self.opener.open(request)
query_except(h, response) == [h EXCEPT !.pc = "done", !.exc = HTTPError(response)]

\* A call of a method of LinkedDataClient, which ends in
\* self._request_with_retry(request), or of SPARQLClient.query
Send(client, request, max_retries, follows308) ==
    /\ http.pc = "idle"
    /\ http' = [NoRequest EXCEPT !.pc = IF 0 <= max_retries THEN "open" ELSE "done",
                                 !.client = client, !.request = request,
                                 !.current = request, !.follows308 = follows308,
                                 !.max_retries = max_retries]
    /\ UNCHANGED <<lists, dicts, ev, reg>>

\* The server answers the request that self.opener.open has sent
Respond(response) ==
    /\ http.pc = "open"
    /\ LET h == [http EXCEPT !.sent = Append(@, http.current),
                             !.responses = Append(@, response)]
           o == opener_open(h, response)
       IN  http' = CASE o.to = "return" -> [h EXCEPT !.pc = "done", !.res = response]
                     [] o.to = "redirect" -> [h EXCEPT !.current = o.new]
                     [] OTHER -> IF h.client = "LinkedDataClient"
                                 THEN request_with_retry_except(h, response)
                                 ELSE query_except(h, response)
    /\ UNCHANGED <<lists, dicts, ev, reg>>

---------------------------------------------------------------------------
(* Evaluations: calls of Operation.process_json(settings, json_data, ...)  *)
(* by a caller (the CLI, a test, a server thread).  A call on a list is    *)
(* observed element by element; any other program in one step.             *)

Idle ==
    [pc |-> "idle", prog |-> JNull, explicit |-> FALSE, stack0 |-> <<>>,
     server |-> [vars |-> <<>>, bindings |-> <<>>], i |-> 0, results |-> <<>>,
     res |-> None, exc |-> NoExc, trace |-> <<>>, calls |-> 0]

\* The list the evaluation of t was given as variable_stack
StackOf(t) == IF ev[t].explicit THEN ArgStack(t) ELSE DefaultStack

Machine(t) ==
    [lists |-> lists, dicts |-> dicts, server |-> ev[t].server,
     trace |-> ev[t].trace, res |-> None, exc |-> NoExc]

Init ==
    /\ lists = [l \in RootLists |-> <<>>]
    /\ dicts = <<>>
    /\ ev = [t \in Threads |-> Idle]
    /\ reg = Unregistered
    /\ http = NoRequest

\* process_json(settings, json_data) or, when explicit,
\* process_json(settings, json_data, {}, variable_stack) with a list of the
\* given scopes
Call(t, json_data, explicit, scopes, server) ==
    /\ ev[t].pc = "idle"
    /\ UNCHANGED <<reg, http>>
    /\ explicit \/ scopes = <<>>
    /\ LET variable_stack == IF explicit THEN ArgStack(t) ELSE DefaultStack
           m0 == [lists |-> IF explicit
                            THEN [lists EXCEPT ![ArgStack(t)] =
                                      [i \in 1..Len(scopes) |-> Len(dicts) + i]]
                            ELSE lists,
                  dicts |-> dicts \o scopes, server |-> server,
                  trace |-> <<>>, res |-> None, exc |-> NoExc]
           started == [ev[t] EXCEPT !.prog = json_data, !.explicit = explicit,
                                    !.stack0 = Scopes(m0.lists, m0.dicts, variable_stack),
                                    !.server = server]
       IN  IF json_data.j = "list"
           THEN LET m1 == Collect(copy_as(CurrentStack(t), variable_stack, m0))
                IN  /\ lists' = m1.lists
                    /\ dicts' = m1.dicts
                    /\ ev' = [ev EXCEPT ![t] = [started EXCEPT !.pc = "list", !.i = 1]]
           ELSE LET r == process_json(json_data, EmptyContext, variable_stack, m0)
                    m1 == Collect(r)
                IN  /\ lists' = m1.lists
                    /\ dicts' = m1.dicts
                    /\ ev' = [ev EXCEPT ![t] = [started EXCEPT !.pc = "done", !.res = r.res,
                                                               !.exc = r.exc, !.trace = r.trace]]

\* One iteration of the loop of process_json over the top-level list
Step(t) ==
    /\ ev[t].pc = "list"
    /\ UNCHANGED <<reg, http>>
    /\ ev[t].i <= Len(ev[t].prog.items)
    /\ LET r == list_item(ev[t].prog.items[ev[t].i], EmptyContext, CurrentStack(t), Machine(t))
           failed == [r EXCEPT !.lists[CurrentStack(t)] = <<>>]
           m1 == Collect(IF r.exc # NoExc THEN failed ELSE r)
       IN  /\ lists' = m1.lists
           /\ dicts' = m1.dicts
           /\ ev' = [ev EXCEPT ![t] =
                        IF r.exc # NoExc
                        THEN [@ EXCEPT !.pc = "done", !.exc = r.exc, !.trace = r.trace]
                        ELSE [@ EXCEPT !.i = @ + 1, !.trace = r.trace,
                                       !.results = Append(@, r.res)]]

\* return results: the loop is over and current_stack is dropped
ReturnList(t) ==
    /\ ev[t].pc = "list"
    /\ UNCHANGED <<reg, http>>
    /\ ev[t].i > Len(ev[t].prog.items)
    /\ LET m1 == Collect([Machine(t) EXCEPT !.lists[CurrentStack(t)] = <<>>])
       IN  /\ lists' = m1.lists
           /\ dicts' = m1.dicts
           /\ ev' = [ev EXCEPT ![t] = [@ EXCEPT !.pc = "done", !.res = PyList(ev[t].results)]]

\* The caller is done with the result and with the list it passed
Forget(t) ==
    /\ ev[t].pc = "done"
    /\ UNCHANGED <<reg, http>>
    /\ ev[t].calls + 1 < MaxCalls
    /\ LET m1 == Collect([Machine(t) EXCEPT !.lists[ArgStack(t)] = <<>>])
       IN  /\ lists' = m1.lists
           /\ dicts' = m1.dicts
           /\ ev' = [ev EXCEPT ![t] = [Idle EXCEPT !.calls = ev[t].calls + 1]]

---------------------------------------------------------------------------
(* Inputs: programs, caller stacks and endpoint answers *)

\* Sequences over S of length lo..hi
SeqsOf(S, lo, hi) == UNION {[1..n -> S] : n \in lo..hi}

A == Literal("a", XSD_string, Absent)
B == Literal("b", XSD_string, Absent)
S_ == <<"s">>

\* Elements of sequential programs
ListElems ==
    {Variable(X, JStr("a")), Variable(X, JStr("b")), Variable(Y, Value(DX)),
     Value(DX), Value(DY),
     JList(<<Variable(X, JStr("b"))>>),
     Execute(Variable(X, JStr("b"))),
     ForEach(JList(<<JStr("a")>>), Variable(X, Current))}

ListPrograms == {JList(items) : items \in SeqsOf(ListElems, 1, MaxLen)}

\* The end-to-end scenario "Variable then Value"
G == <<"g">>
DG == <<"$", "g">>
Scenario5 ==
    JList(<<Variable(G, JStr("hello")),
            Concat(<<Value(DG), JStr(" world")>>)>>)

NodePrograms ==
    {Value(DX), Value(DY), Variable(X, JStr("a")), Variable(Y, JStr("b")),
     Variable(X, Value(DY)), Current, JStr("a"),
     Concat(<<JStr("a"), Value(DX)>>), Scenario5}

\* ForEach programs
Endpoint == Uri(JStr("http://e/sparql"))
SelectElems == {JStr("a"), JStr("b"), Variable(Y, JStr("a"))}
Selects ==
    {JList(items) : items \in SeqsOf(SelectElems, 0, MaxItems)}
        \cup {SELECT(Endpoint, JStr("SELECT ?s {}")), JStr("a")}
BodyOps == {Current, Variable(X, Current), Value(DX), Value(S_), JStr("b")}
Operations == BodyOps \cup {JList(ops) : ops \in SeqsOf(BodyOps, 0, MaxOps)}
ForEachPrograms == {ForEach(select, operation) : select \in Selects, operation \in Operations}

Programs == ListPrograms \cup NodePrograms \cup ForEachPrograms

\* Scopes a caller may pass in its variable_stack
ScopeDicts ==
    {EmptyDict, [n \in {X} |-> A], [n \in {X} |-> B], [n \in {Y} |-> PyList(<<A, B>>)]}
CallerStacks == SeqsOf(ScopeDicts, 0, MaxItems)
FewStacks == {<<>>, <<EmptyDict>>, <<[n \in {Y} |-> B]>>}

\* Answers of the SPARQL endpoint, as SPARQL Results JSON; every solution
\* binds ?s
JsonBindings ==
    {[n \in {S_} |-> [type |-> "uri", value |-> "http://e/1", datatype |-> Absent, lang |-> Absent]],
     [n \in {S_} |-> [type |-> "literal", value |-> "a", datatype |-> Absent, lang |-> Absent]]}
NoAnswer == [vars |-> <<>>, bindings |-> <<>>]
Answers == {[vars |-> <<S_>>, bindings |-> rows] : rows \in SeqsOf(JsonBindings, 0, MaxItems)}

RECURSIVE Uses(_, _)
\* The program holds an operator node named op
Uses(json_data, op) ==
    IF json_data.j = "op"
    THEN \/ json_data.op = op
         \/ \E f \in DOMAIN json_data.args :
               /\ f # "name"
               /\ IF f = "inputs"
                  THEN \E i \in 1..Len(json_data.args[f]) : Uses(json_data.args[f][i], op)
                  ELSE Uses(json_data.args[f], op)
    ELSE IF json_data.j = "list"
    THEN \E i \in 1..Len(json_data.items) : Uses(json_data.items[i], op)
    ELSE FALSE

---------------------------------------------------------------------------
(* One evaluation in a fresh process *)

Evaluate ==
    /\ ev[1].pc = "idle"
    /\ \E json_data \in Programs, explicit \in BOOLEAN :
        \E scopes \in (IF json_data \in NodePrograms THEN CallerStacks ELSE FewStacks) :
            \E server \in (IF Uses(json_data, "SELECT") THEN Answers ELSE {NoAnswer}) :
                Call(1, json_data, explicit, scopes, server)

Next == Evaluate \/ Step(1) \/ ReturnList(1)

Spec == Init /\ [][Next]_vars

---------------------------------------------------------------------------
(* What the claims speak of *)

E1 == ev[1]
Done == E1.pc = "done"
Failed == Done /\ E1.exc # NoExc
Succeeded == Done /\ E1.exc = NoExc

\* The scopes of the stack evaluation 1 was given, as they are now
FinalScopes == Scopes(lists, dicts, StackOf(1))

Names == {X, Y, G}
Max(S) == CHOOSE n \in S : \A k \in S : k <= n

IsVariable(node, n) == node.j = "op" /\ node.op = "Variable" /\ node.args.name = n
IsLookup(node, n) == node.j = "op" /\ node.op = "Value" /\ node.args.name = <<"$">> \o n
IsScalar(node) == node.j \in {"str", "int"}

RECURSIVE Binds(_, _)
\* The node holds, at any depth, a Variable node for n
Binds(node, n) ==
    IF node.j = "op"
    THEN \/ IsVariable(node, n)
         \/ \E f \in DOMAIN node.args :
               /\ f # "name"
               /\ IF f = "inputs"
                  THEN \E i \in 1..Len(node.args[f]) : Binds(node.args[f][i], n)
                  ELSE Binds(node.args[f], n)
    ELSE IF node.j = "list"
    THEN \E i \in 1..Len(node.items) : Binds(node.items[i], n)
    ELSE FALSE

Unknown == [k |-> "Unknown"]

RECURSIVE BoundBefore(_, _, _)
\* What the Variable elements of the list `items` before position j have
\* bound n to, by the last of them; Unknown when there is none, when a
\* later element rebinds n at some depth, or when the bound expression is
\* neither a scalar nor a lookup
BoundBefore(items, j, n) ==
    LET I == {i \in 1..(j - 1) : IsVariable(items[i], n)}
    IN  IF I = {} THEN Unknown
        ELSE LET i == Max(I)
                 value == items[i].args.value
             IN  IF \E k \in (i + 1)..(j - 1) : Binds(items[k], n) THEN Unknown
                 ELSE IF IsScalar(value) THEN json_to_rdflib(value)
                 ELSE IF \E v \in Names : IsLookup(value, v)
                 THEN BoundBefore(items, i, CHOOSE v \in Names : IsLookup(value, v))
                 ELSE Unknown

---------------------------------------------------------------------------
(* C1: the elements of a list are evaluated in order on one shared stack: *)
(* Value{"$n"} at element j returns what the last Variable{n} element     *)
(* before j bound, and does not fail.                                     *)

C1_ListSharesBindings ==
    (E1.pc \in {"list", "done"} /\ E1.prog.j = "list") =>
        \A j \in 1..Len(E1.prog.items), n \in Names :
            (IsLookup(E1.prog.items[j], n) /\ BoundBefore(E1.prog.items, j, n) # Unknown) =>
                /\ j <= Len(E1.results) => E1.results[j] = BoundBefore(E1.prog.items, j, n)
                /\ ~(Failed /\ j = Len(E1.results) + 1)

C1_Witness ==
    /\ Succeeded
    /\ E1.prog = JList(<<Variable(X, JStr("a")), Variable(X, JStr("b")), Value(DX)>>)
    /\ E1.res = PyList(<<None, None, B>>)

---------------------------------------------------------------------------
(* C5: after process_json returns from a list, a variable first bound by  *)
(* a Variable element of the list is unbound in the stack the list was    *)
(* entered with.                                                          *)

BoundIn(scopes, n) == \E i \in 1..Len(scopes) : n \in DOMAIN scopes[i]

\* C5: a variable first bound inside a list is unbound in the enclosing
\* stack once the list has returned
C5_ListBindingsDoNotEscape ==
    (Succeeded /\ E1.prog.j = "list" /\ E1.explicit
        /\ ~Uses(E1.prog, "ForEach") /\ ~Uses(E1.prog, "Execute")) =>
        \A n \in Names :
            ((\E i \in 1..Len(E1.prog.items) : IsVariable(E1.prog.items[i], n))
                /\ ~BoundIn(E1.stack0, n))
            => ~BoundIn(FinalScopes, n)

---------------------------------------------------------------------------
(* C6: Value{"$n"} returns the value of n in the topmost scope that holds *)
(* n and fails when none does; Variable writes the top scope only.        *)

Holding(scopes, n) == {i \in 1..Len(scopes) : n \in DOMAIN scopes[i]}

\* C6, lookup: the topmost scope holding n answers, none holding n fails
C6_Lookup ==
    \A n \in Names :
        (Done /\ IsLookup(E1.prog, n)) =>
            IF Holding(E1.stack0, n) = {}
            THEN E1.exc = VariableNotFound
            ELSE E1.exc = NoExc /\ E1.res = E1.stack0[Max(Holding(E1.stack0, n))][n]

\* C6, write: Variable changes the top scope only
C6_Write ==
    \A n \in Names :
        (Done /\ IsVariable(E1.prog, n) /\ IsScalar(E1.prog.args.value)) =>
            LET depth == Len(E1.stack0)
                top == FinalScopes[Len(FinalScopes)]
            IN  /\ E1.exc = NoExc /\ E1.res = None
                /\ Len(FinalScopes) = IF depth = 0 THEN 1 ELSE depth
                /\ \A i \in 1..(depth - 1) : FinalScopes[i] = E1.stack0[i]
                /\ top[n] = json_to_rdflib(E1.prog.args.value)
                /\ DOMAIN top = {n} \cup (IF depth = 0 THEN {} ELSE DOMAIN E1.stack0[depth])
                /\ \A v \in DOMAIN top \ {n} : top[v] = E1.stack0[depth][v]

\* C6: lookup takes the topmost scope holding n, Variable writes the top
\* scope only
C6_StackSemantics == C6_Lookup /\ C6_Write

C6_Witness ==
    /\ Done /\ E1.prog = Value(DX)
    /\ E1.stack0 = <<[n \in {X} |-> A], [n \in {X} |-> B]>>
    /\ E1.res = B

---------------------------------------------------------------------------
(* C7: [Variable{x, e}, Value{"$x"}] returns the value of e, and the      *)
(* scenario "Variable then Value" returns "hello world"^^xsd:string.      *)

HelloWorld == Literal("hello world", XSD_string, Absent)

\* C7 as claimed: the list returns the value of e
C7_ListReturnsValue ==
    /\ \A v \in {"a", "b"} :
         (Done /\ E1.prog = JList(<<Variable(X, JStr(v)), Value(DX)>>)) =>
             E1.res = Literal(v, XSD_string, Absent)
    /\ (Done /\ E1.prog = Scenario5) => E1.res = HelloWorld

\* C7 as amended: process_json on the list returns the list of the results
\* of its elements, null for the Variable and then the value
C7_ListReturnsResults ==
    /\ \A v \in {"a", "b"} :
         (Done /\ E1.prog = JList(<<Variable(X, JStr(v)), Value(DX)>>)) =>
             E1.exc = NoExc /\ E1.res = PyList(<<None, Literal(v, XSD_string, Absent)>>)
    /\ (Done /\ E1.prog = Scenario5) =>
             E1.exc = NoExc /\ E1.res = PyList(<<None, HelloWorld>>)

C7_Witness ==
    Done /\ E1.prog = Scenario5 /\ E1.res = PyList(<<None, HelloWorld>>)

---------------------------------------------------------------------------
(* ForEach: what a program denotes, told from the program alone *)

IsForEach(node) == node.j = "op" /\ node.op = "ForEach"

\* select is a list of scalars and Variable nodes, or a SELECT
KnownSelect(select) ==
    \/ select.j = "op" /\ select.op = "SELECT"
    \/ /\ select.j = "list"
       /\ \A i \in 1..Len(select.items) :
             \/ IsScalar(select.items[i])
             \/ \E n \in Names : /\ IsVariable(select.items[i], n)
                                  /\ IsScalar(select.items[i].args.value)

\* The items of a known select, in its order: the terms of the scalars
\* and null for a Variable node; or the rows of the endpoint's answer
SelectedItems(select, server) ==
    IF select.j = "list"
    THEN [i \in 1..Len(select.items) |->
             IF IsScalar(select.items[i]) THEN json_to_rdflib(select.items[i]) ELSE None]
    ELSE [r \in 1..Len(server.bindings) |->
             ResultRow([v \in DOMAIN server.bindings[r] |->
                            parse_binding(server.bindings[r][v])], server.vars)]

Fails(e) == [k |-> "Fails", exc |-> e]
Told(v) == v.k \notin {"Fails", "Unknown"}

RECURSIVE BodyResult(_, _)
\* The result of one body operation for an item; Unknown for a node whose
\* result depends on the variable stack
BodyResult(op, item) ==
    IF IsScalar(op) THEN json_to_rdflib(op)
    ELSE IF op.j # "op" THEN Unknown
    ELSE IF op.op = "Current"
    THEN IF item = None THEN Fails(CurrentRequiresContext) ELSE item
    ELSE IF op.op = "Variable"
    THEN IF Told(BodyResult(op.args.value, item)) THEN None
         ELSE BodyResult(op.args.value, item)
    ELSE IF op.op = "Value" /\ Head(op.args.name) # "$"
    THEN IF item.k # "ResultRow" THEN Fails(ContextVariableNotFound)
         ELSE IF op.args.name \in DOMAIN item.b THEN item.b[op.args.name]
         ELSE Fails(RowVariableNotFound)
    ELSE Unknown

\* The operations of the body, as a sequence
BodyOf(operation) == IF operation.j = "list" THEN operation.items ELSE <<operation>>

RECURSIVE Instances(_, _)
\* The operator instances a body operation constructs for an item, in order
Instances(op, item) ==
    IF op.j # "op" THEN <<>>
    ELSE <<[e |-> "op", op |-> op.op, ctx |-> item]>>
            \o (IF op.op = "Variable" THEN Instances(op.args.value, item) ELSE <<>>)

RECURSIVE OperationsTrace(_, _, _)
\* The first j operations of the body on one item
OperationsTrace(ops, j, item) ==
    IF j = 0 THEN <<>> ELSE OperationsTrace(ops, j - 1, item) \o Instances(ops[j], item)

RECURSIVE ItemsTrace(_, _, _)
\* The body, whole, on the first i items, item after item
ItemsTrace(items, i, ops) ==
    IF i = 0 THEN <<>>
    ELSE ItemsTrace(items, i - 1, ops)
            \o <<[e |-> "item", op |-> "", ctx |-> items[i]]>>
            \o OperationsTrace(ops, Len(ops), items[i])

EndsWith(trace, t) ==
    Len(t) <= Len(trace) /\ SubSeq(trace, Len(trace) - Len(t) + 1, Len(trace)) = t

ItemsProcessed == Cardinality({p \in 1..Len(E1.trace) : E1.trace[p].e = "item"})

NotNone(v) == v # None
RECURSIVE LastNotNone(_)
LastNotNone(results) ==
    IF results = <<>> THEN None
    ELSE IF results[Len(results)] # None THEN results[Len(results)]
    ELSE LastNotNone(SubSeq(results, 1, Len(results) - 1))

\* The evaluation is of a ForEach whose select is known
ForEachOver(items, ops) ==
    /\ Done /\ IsForEach(E1.prog) /\ KnownSelect(E1.prog.args.select)
    /\ items = SelectedItems(E1.prog.args.select, E1.server)
    /\ ops = BodyOf(E1.prog.args.operation)

\* Every operation of the body has a result, for every item
AllTold(items, ops) ==
    \A i \in 1..Len(items), j \in 1..Len(ops) : Told(BodyResult(ops[j], items[i]))

---------------------------------------------------------------------------
(* C8: with a single operator node as operation ForEach evaluates the     *)
(* body once per item, in the order of select, the item being the         *)
(* context, and returns the results that are not null in that order; with *)
(* operation = Current it returns the items.                              *)

\* C8 as claimed: Current over n items returns those n items
C8_CurrentReturnsEveryItem ==
    LET items == SelectedItems(E1.prog.args.select, E1.server)
    IN  (ForEachOver(items, <<Current>>) /\ E1.prog.args.operation = Current) =>
            E1.exc = NoExc /\ E1.res = PyList(items)

\* C8 as amended: Current over n items none of which is null returns those n
\* items; with a null item Current fails and so does the ForEach
C8_ForEachSingle ==
    LET items == SelectedItems(E1.prog.args.select, E1.server)
        op == E1.prog.args.operation
    IN  /\ (ForEachOver(items, <<op>>) /\ op.j # "list" /\ AllTold(items, <<op>>)) =>
            /\ E1.exc = NoExc
            /\ E1.res = PyList(SelectSeq([i \in 1..Len(items) |-> BodyResult(op, items[i])],
                                         NotNone))
            /\ EndsWith(E1.trace, ItemsTrace(items, Len(items), <<op>>))
            /\ ItemsProcessed = Len(items)
            /\ op = Current => E1.res = PyList(items)
        /\ (ForEachOver(items, <<op>>) /\ op = Current
                /\ \E i \in 1..Len(items) : items[i] = None) =>
            E1.exc = CurrentRequiresContext /\ E1.res = None

C8_Witness ==
    /\ Succeeded
    /\ E1.prog = ForEach(SELECT(Endpoint, JStr("SELECT ?s {}")), Current)
    /\ Len(E1.res.items) = 2
    /\ E1.res.items[1] # E1.res.items[2]
    /\ E1.res.items[1].k = "ResultRow"

---------------------------------------------------------------------------
(* C9: with a list as operation ForEach runs the operations in sequence   *)
(* for each item, item after item, and collects per item the last result  *)
(* that is not null, and nothing when there is none.                      *)

C9_ForEachList ==
    LET items == SelectedItems(E1.prog.args.select, E1.server)
        ops == BodyOf(E1.prog.args.operation)
        last == [i \in 1..Len(items) |->
                    LastNotNone([j \in 1..Len(ops) |-> BodyResult(ops[j], items[i])])]
    IN  (ForEachOver(items, ops) /\ E1.prog.args.operation.j = "list" /\ AllTold(items, ops)) =>
            /\ E1.exc = NoExc
            /\ E1.res = PyList(SelectSeq(last, NotNone))
            /\ EndsWith(E1.trace, ItemsTrace(items, Len(items), ops))
            /\ ItemsProcessed = Len(items)

C9_Witness ==
    /\ Succeeded
    /\ E1.prog = ForEach(JList(<<JStr("a"), JStr("b")>>),
                         JList(<<Current, Variable(X, Current)>>))
    /\ E1.res = PyList(<<A, B>>)

---------------------------------------------------------------------------
(* C10: when the body fails for item k the ForEach fails with that error, *)
(* the body is evaluated for no item after k, no list of results is       *)
(* returned, and what was done for the items before k stays done.         *)

Before(p, q) == p[1] < q[1] \/ (p[1] = q[1] /\ p[2] < q[2])
First(P) == CHOOSE p \in P : \A q \in P \ {p} : Before(p, q)
Last(P) == CHOOSE p \in P : \A q \in P \ {p} : Before(q, p)

\* The <<item, operation>> positions at which the body fails
FailurePoints(items, ops) ==
    {p \in (1..Len(items)) \X (1..Len(ops)) : BodyResult(ops[p[2]], items[p[1]]).k = "Fails"}

\* The positions before p at which the body binds n
Writes(items, ops, p, n) ==
    {q \in (1..Len(items)) \X (1..Len(ops)) : Before(q, p) /\ IsVariable(ops[q[2]], n)}

\* C10: the ForEach fails with the error of the first failing body
\* evaluation, processes no later item, returns nothing, keeps earlier writes
C10_ForEachFails ==
    LET items == SelectedItems(E1.prog.args.select, E1.server)
        ops == BodyOf(E1.prog.args.operation)
        P == FailurePoints(items, ops)
    IN  (/\ ForEachOver(items, ops)
         /\ \A i \in 1..Len(items), j \in 1..Len(ops) : BodyResult(ops[j], items[i]) # Unknown
         /\ P # {}) =>
            LET k == First(P)[1]
                j == First(P)[2]
            IN  /\ E1.exc = BodyResult(ops[j], items[k]).exc
                /\ E1.res = None
                /\ ItemsProcessed = k
                /\ EndsWith(E1.trace,
                            ItemsTrace(items, k - 1, ops)
                                \o <<[e |-> "item", op |-> "", ctx |-> items[k]]>>
                                \o OperationsTrace(ops, j, items[k]))
                /\ \A n \in Names :
                      LET W == Writes(items, ops, First(P), n)
                      IN  W # {} =>
                            /\ FinalScopes # <<>>
                            /\ n \in DOMAIN FinalScopes[Len(FinalScopes)]
                            /\ FinalScopes[Len(FinalScopes)][n] = items[Last(W)[1]]

C10_Witness ==
    /\ Failed
    /\ E1.prog = ForEach(JList(<<JStr("a"), JStr("b")>>),
                         JList(<<Variable(X, Current), Value(S_)>>))
    /\ E1.exc = ContextVariableNotFound
    /\ ItemsProcessed = 1
    /\ FinalScopes[Len(FinalScopes)][X] = A

---------------------------------------------------------------------------
(* C4: ForEach pushes a scope on entry and pops it on every exit path, so *)
(* after a ForEach returned or failed the stack has the scopes and the    *)
(* bindings it had before.                                                *)

C4_ForEachRestoresStack ==
    (Done /\ IsForEach(E1.prog) /\ ~Uses(E1.prog.args.select, "Variable")) =>
        FinalScopes = E1.stack0

---------------------------------------------------------------------------
(* A process that evaluates one program after another, each with          *)
(* process_json(settings, program)                                        *)

SessionPrograms ==
    {Variable(X, JStr("a")), Variable(X, JStr("b")),
     Value(DX),
     JList(<<Value(DX)>>),
     JList(<<JStr("a"), Value(DX)>>),
     JList(<<Variable(X, JStr("b")), Value(DX)>>),
     ForEach(JList(<<JStr("a")>>), Variable(X, Current)),
     Execute(Variable(X, JStr("b"))),
     JList(<<Execute(Variable(X, JStr("a"))), Variable(Y, JStr("b"))>>)}

EvaluateNext ==
    /\ ev[1].pc = "idle"
    /\ \E json_data \in SessionPrograms : Call(1, json_data, FALSE, <<>>, NoAnswer)

NextSession == EvaluateNext \/ Step(1) \/ ReturnList(1) \/ Forget(1)

SpecSession == Init /\ [][NextSession]_vars

---------------------------------------------------------------------------
(* C2: every evaluation made without an explicit variable_stack starts    *)
(* with an empty variable stack, so a lookup in a program that binds no   *)
(* variable fails whatever was evaluated before it.                       *)

C2_EvaluationsStartEmpty ==
    (Done /\ ~E1.explicit /\ ~Uses(E1.prog, "Variable") /\ Uses(E1.prog, "Value")) =>
        E1.stack0 = <<>> /\ E1.exc = VariableNotFound

---------------------------------------------------------------------------
(* Two evaluations on two threads of one process, their steps interleaved *)

ConcPrograms ==
    {Variable(X, JStr("a")),
     Value(DX),
     JList(<<JStr("a"), Value(DX)>>),
     JList(<<Variable(X, JStr("a")), Value(DX)>>),
     JList(<<Execute(Variable(X, JStr("b"))), JStr("a")>>),
     ForEach(JList(<<JStr("a"), JStr("b")>>), Variable(X, Current))}

Start(t) ==
    /\ ev[t].pc = "idle"
    /\ \E json_data \in ConcPrograms : Call(t, json_data, FALSE, <<>>, NoAnswer)

NextConc == \E t \in Threads : Start(t) \/ Step(t) \/ ReturnList(t)

SpecConc == Init /\ [][NextConc]_vars

---------------------------------------------------------------------------
(* C3: with the steps of two evaluations interleaved, a lookup in one     *)
(* never returns a value bound in the other: a program that binds no      *)
(* variable fails its lookup as it does when it runs alone.               *)

C3_EvaluationsIsolated ==
    \A t \in Threads :
        (ev[t].pc = "done" /\ ~Uses(ev[t].prog, "Variable") /\ Uses(ev[t].prog, "Value")) =>
            ev[t].exc = VariableNotFound

---------------------------------------------------------------------------
(* Evaluations of single operator nodes and of JSON values, each in a    *)
(* fresh process                                                         *)

Scalars == {JStr("a"), JStr("b"), JInt(1)}

FilterPrograms ==
    {Filter(JList(xs), JInt(i)) : xs \in SeqsOf(Scalars, 0, MaxItems), i \in 0..(MaxItems + 1)}
        \cup {Filter(SELECT(Endpoint, JStr("SELECT ?s {}")), JInt(1)),
              Filter(JList(<<JStr("a")>>), JStr("1")),
              Filter(JList(<<JStr("a")>>), Value(DX))}

\* Nodes whose @op is in no registry, with an argument that binds x
UnknownNodes ==
    {Op("Nope", [input |-> Variable(X, Current)]),
     Op("select", [input |-> JList(<<Variable(X, Current), Value(DX)>>)])}

\* An unknown node by itself, in lists, in JSON-LD objects and as an
\* argument of each operator
Around(u) ==
    {u, JList(<<u>>), JList(<<JStr("a"), u, Variable(X, JStr("b"))>>), JList(<<JList(<<u>>)>>),
     JObject(<<<<"@id", u>>>>), JObject(<<<<"p", JStr("a")>>, <<"q", JObject(<<<<"@id", u>>>>)>>>>),
     Variable(Y, u), Concat(<<JStr("a"), u>>), Uri(u), Execute(u),
     Filter(u, JInt(1)), Filter(JList(<<JStr("a")>>), u),
     ForEach(u, Variable(X, Current)), ForEach(JList(<<JStr("a")>>), u),
     ForEach(JList(<<JStr("a")>>), JList(<<u, Variable(X, Current)>>)),
     SELECT(u, JStr("SELECT ?s {}")), SELECT(Endpoint, u)}

UnknownPrograms == UNION {Around(u) : u \in UnknownNodes}

\* JSON-LD objects, null, and lists of them
ObjectValues == {JStr("a"), JNull, Uri(JStr("http://e/1")), Value(DX), JList(<<JStr("a"), JNull>>)}
ObjectPrograms ==
    {JObject(<<>>), JNull, JList(<<JNull>>), Current,
     JList(<<JObject(<<<<"@id", Uri(JStr("http://e/1"))>>>>), JStr("a")>>),
     JObject(<<<<"@id", Uri(JStr("http://e/1"))>>,
               <<"p", JObject(<<<<"@value", JStr("a")>>>>)>>>>)}
        \cup {JObject(<<<<"@id", v>>, <<"p", w>>>>) : v, w \in ObjectValues}

\* JSON scalars of every type, alone and in a list
ScalarPrograms ==
    LET scalars == {JStr("true"), JStr("1"), JInt(0), JInt(1), JFloat("1.5"), JFloat("1.0"),
                    JBool(TRUE), JBool(FALSE)}
    IN  scalars \cup {JList(<<v>>) : v \in scalars}

\* Current outside every ForEach body
CurrentPrograms ==
    {Current, JList(<<Current>>), JList(<<JStr("a"), Current>>), Variable(X, Current),
     JObject(<<<<"p", Current>>>>), Concat(<<Current>>)}

\* ResolveURI with a base and a relative reference that are bare strings,
\* Uri nodes or an integer
Bases == {"http://example.org/", "http://example.org/a/b"}
Relatives == {"foo", "../c", "http://e/1"}
ResolvePrograms ==
    {ResolveURI(b, r) : b \in {JStr(u) : u \in Bases} \cup {Uri(JStr(u)) : u \in Bases},
                        r \in {JStr(u) : u \in Relatives} \cup {Uri(JStr("foo")), JInt(1)}}

\* Execute of a node that reads its environment: the context item or a
\* variable, at the top, in a list and in a ForEach body
ExecutePrograms ==
    {Execute(Value(DY)), Execute(Current),
     JList(<<Variable(Y, JStr("a")), Execute(Value(DY))>>),
     JList(<<Variable(Y, JStr("a")), Value(DY)>>),
     ForEach(JList(<<JStr("a"), JStr("b")>>), Execute(Current)),
     ForEach(JList(<<JStr("a"), JStr("b")>>), Execute(Value(DY))),
     ForEach(JList(<<JStr("a"), JStr("b")>>),
             JList(<<Variable(Y, Current), Execute(Value(DY))>>))}

\* ForEach over the rows of a SELECT, as a Result and through Bindings,
\* with a body that reads a variable of the row
Rows == {SELECT(Endpoint, JStr("SELECT ?s {}")), Bindings(SELECT(Endpoint, JStr("SELECT ?s {}")))}
RowPrograms ==
    {ForEach(select, Value(n)) : select \in Rows, n \in {S_, X}}
        \cup {Bindings(SELECT(Endpoint, JStr("SELECT ?s {}"))), Bindings(JStr("a"))}

OperatorPrograms ==
    FilterPrograms \cup UnknownPrograms \cup ObjectPrograms \cup ScalarPrograms
        \cup CurrentPrograms \cup ResolvePrograms \cup ExecutePrograms \cup RowPrograms

EvaluateOperator ==
    /\ ev[1].pc = "idle"
    /\ \E json_data \in OperatorPrograms, explicit \in BOOLEAN :
        \E scopes \in FewStacks :
            \E server \in (IF Uses(json_data, "SELECT") THEN Answers ELSE {NoAnswer}) :
                Call(1, json_data, explicit, scopes, server)

\* String operators with an argument that is looked up: $x, which the
\* caller has bound to a term or to null
StringPrograms ==
    {Concat(<<Value(DX)>>), Concat(<<JStr("a"), Value(DX)>>),
     Replace(Value(DX), JStr("a"), JStr("b")),
     Replace(JStr("a b"), Value(DX), JStr("b")),
     Replace(JStr("a b"), JStr("a"), Value(DX)),
     EncodeForURI(Value(DX)),
     JList(<<Concat(<<Value(DX), JStr("a")>>), EncodeForURI(Value(DX))>>)}

Terms ==
    {Literal("a b", XSD_string, Absent), Literal("a/b", Absent, "en"),
     Literal("a", Absent, Absent), Literal("1", XSD_integer, Absent),
     Literal("true", XSD_boolean, Absent), URIRef("http://e/1"), BNode("b0"), None}

\* String operators with an argument that evaluates to an xsd:integer
\* literal, to an IRI or to null
NotStringPrograms ==
    {Concat(<<JStr("a"), JInt(1)>>), Concat(<<Uri(JStr("http://e/1"))>>),
     Concat(<<Variable(Y, JStr("a"))>>),
     Replace(JInt(1), JStr("a"), JStr("b")), Replace(JStr("a"), Uri(JStr("a")), JStr("b")),
     Replace(JStr("a"), JStr("a"), JInt(1)),
     EncodeForURI(JInt(1)), EncodeForURI(Uri(JStr("http://e/1")))}

\* Substitute in queries where ?x occurs and ?y does not, the binding
\* looked up from $x or given as a SPARQL binding object
Queries == {"?x", "?x ?x", "?x?x", "?xy ?x", "<a> ?p $x.", "ASK { ?x a ?x }"}
BindingObject(type, value) == JObject(<<<<"type", JStr(type)>>, <<"value", JStr(value)>>>>)
SubstitutePrograms ==
    {Substitute(JStr(q), JStr(v), b) :
        q \in Queries, v \in {"x", "?x", "y", "?y"},
        b \in {Value(DX), BindingObject("uri", "http://e/1"), BindingObject("bnode", "b0")}}

EvaluateString ==
    /\ ev[1].pc = "idle"
    /\ \/ \E json_data \in StringPrograms \cup SubstitutePrograms, term \in Terms :
             Call(1, json_data, TRUE, <<[n \in {X} |-> term]>>, NoAnswer)
       \/ \E json_data \in NotStringPrograms, explicit \in BOOLEAN :
             Call(1, json_data, explicit, <<>>, NoAnswer)

NextOperators == EvaluateOperator \/ EvaluateString \/ Step(1) \/ ReturnList(1)

SpecOperators == Init /\ [][NextOperators]_vars

---------------------------------------------------------------------------
(* C11: Filter{input: xs, expression: i} on a list xs of scalars and an   *)
(* integer i returns the term of xs[i], unwrapped, when 1 <= i <= |xs|,   *)
(* and fails otherwise.                                                   *)

C11_FilterSelects ==
    (/\ Done /\ E1.prog.j = "op" /\ E1.prog.op = "Filter"
     /\ E1.prog.args.input.j = "list" /\ E1.prog.args.expression.j = "int") =>
        LET xs == E1.prog.args.input.items
            i == E1.prog.args.expression.n
        IN  IF 1 <= i /\ i <= Len(xs)
            THEN E1.exc = NoExc /\ E1.res = json_to_rdflib(xs[i])
            ELSE E1.exc # NoExc

---------------------------------------------------------------------------
(* C12: a node whose @op is not registered fails with the                 *)
(* unknown-operation error before any of its arguments is evaluated, at   *)
(* every depth: none of the operators of its arguments is constructed and *)
(* the variable stack is as it was.                                       *)

C12_UnknownOperationFirst ==
    (Done /\ E1.prog \in UnknownPrograms) =>
        /\ E1.exc = UnknownOperation
        /\ E1.res = None
        /\ \A p \in 1..Len(E1.trace) : E1.trace[p].op \notin {"Current", "Value"}
        /\ FinalScopes = E1.stack0

C12_Witness ==
    /\ Failed /\ E1.exc = UnknownOperation
    /\ E1.prog = JObject(<<<<"p", JStr("a")>>,
                           <<"q", JObject(<<<<"@id", Op("Nope", [input |-> Variable(X, Current)])>>>>)>>>>)
    /\ E1.stack0 = <<EmptyDict>>
    /\ FinalScopes = <<EmptyDict>>

---------------------------------------------------------------------------
(* C13: process_json returns an RDF term, a Result, a list of such        *)
(* values, or null, and never raw JSON, also for programs that are or     *)
(* hold a JSON object without @op, and for the scalar null.               *)

IsTerm(v) == "k" \in DOMAIN v /\ v.k \in {"Literal", "URIRef", "BNode"}

RECURSIVE IsRdfValue(_)
\* A term, a Result, null, or a list of such values
IsRdfValue(v) ==
    \/ IsTerm(v)
    \/ "k" \in DOMAIN v /\ v.k \in {"Result", "None"}
    \/ "k" \in DOMAIN v /\ v.k = "list" /\ \A i \in 1..Len(v.items) : IsRdfValue(v.items[i])

RECURSIVE IsEvaluated(_)
\* A term, a Result, null, a list of evaluated values, or a dict whose
\* values are evaluated values
IsEvaluated(v) ==
    \/ IsTerm(v)
    \/ "k" \in DOMAIN v /\ v.k \in {"Result", "None"}
    \/ "k" \in DOMAIN v /\ v.k = "list" /\ \A i \in 1..Len(v.items) : IsEvaluated(v.items[i])
    \/ "k" \in DOMAIN v /\ v.k = "dict" /\ \A i \in 1..Len(v.fields) : IsEvaluated(v.fields[i][2])

---------------------------------------------------------------------------
(* Registration of the operator classes, in any order and any number of   *)
(* times                                                                  *)

NextRegistry == \E operation_cls \in Classes : register(operation_cls)

SpecRegistry == Init /\ [][NextRegistry]_vars

---------------------------------------------------------------------------
(* C14: Operation.register fails when a name that is in the registry is   *)
(* registered again with a different class, and the class registered under *)
(* a name is never replaced.                                              *)

C14_RegisterKeepsFirst ==
    [][/\ \A n \in DOMAIN reg.registry :
             n \in DOMAIN reg'.registry /\ reg'.registry[n] = reg.registry[n]
       /\ (/\ reg'.calls = reg.calls + 1
           /\ reg'.operation_cls.name \in DOMAIN reg.registry
           /\ reg.registry[reg'.operation_cls.name] # reg'.operation_cls)
          => reg'.exc # NoExc]_vars

---------------------------------------------------------------------------
(* Requests of the clients to a server that answers 200, an error, or 429 *)
(* with any Retry-After                                                   *)

U1 == "http://e/doc"
U2 == "http://e/moved"

RetryAfters ==
    {NoRetryAfter, Seconds(0), Seconds(3), Seconds(-1), HttpDate(7), HttpDate(-7), Unparsable}
RetryResponses ==
    {OK, NotFound, ServiceUnavailable} \cup {TooManyRequests(ra) : ra \in RetryAfters}

\* LinkedDataClient.get(url), with the retry caps _request_with_retry may
\* be given
Get ==
    \E max_retries \in {0, 1, DefaultMaxRetries} :
        Send("LinkedDataClient", LinkedDataClient_get(U1), max_retries, TRUE)

\* SPARQLClient.query(endpoint_url, query_string)
Query ==
    Send("SPARQLClient", SPARQLClient_query("http://e/sparql", "SELECT ?s {}"),
         DefaultMaxRetries, TRUE)

Answer == \E response \in RetryResponses : Respond(response)

NextClient == Get \/ Query \/ Answer

SpecClient == Init /\ [][NextClient]_vars

\* The responses received so far are all 429 with the given Retry-After
AllTooMany(responses, retry_afters) ==
    \A i \in 1..Len(responses) :
        responses[i].status = 429 /\ responses[i].retry_after \in retry_afters

LinkedData == http.client = "LinkedDataClient"

---------------------------------------------------------------------------
(* C15: k consecutive 429 responses with Retry-After: 0 and then 200, k   *)
(* not above the retry cap: _request_with_retry issues k + 1 requests,    *)
(* each the request it was given, returns the 200 response, and surfaces  *)
(* none of the 429 responses.                                             *)

C15_RetryUntilOk ==
    LET n == Len(http.responses)
    IN  /\ (LinkedData /\ n <= http.max_retries
               /\ AllTooMany(http.responses, {Seconds(0)})) =>
            (http.pc = "open" /\ http.exc = NoError /\ http.attempt = n)
        /\ (LinkedData /\ n >= 1 /\ n - 1 <= http.max_retries
               /\ AllTooMany(SubSeq(http.responses, 1, n - 1), {Seconds(0)})
               /\ http.responses[n] = OK) =>
            (/\ http.pc = "done" /\ http.exc = NoError /\ http.res = OK
             /\ Len(http.sent) = n
             /\ \A i \in 1..n : http.sent[i] = http.request
             /\ http.waits = [i \in 1..(n - 1) |-> 0])

C15_Witness ==
    /\ LinkedData /\ http.pc = "done" /\ http.max_retries = DefaultMaxRetries
    /\ http.responses = [i \in 1..(DefaultMaxRetries + 1) |->
                            IF i <= DefaultMaxRetries THEN TooManyRequests(Seconds(0)) ELSE OK]
    /\ Len(http.sent) = DefaultMaxRetries + 1
    /\ http.res = OK

---------------------------------------------------------------------------
(* The same, with a server that answers every request in the end:         *)
(* self.opener.open(request) returns or raises                            *)

SpecClientFair == Init /\ [][NextClient]_vars /\ WF_vars(Answer)

---------------------------------------------------------------------------
(* C16: whatever the server answers, _request_with_retry ends: it issues  *)
(* at most max_retries + 1 requests, and after max_retries + 1 responses  *)
(* that are all 429 it raises the last 429 error; it never returns        *)
(* without a response.                                                    *)

C16_Bounded ==
    LinkedData =>
        /\ Len(http.sent) <= http.max_retries + 1
        /\ http.pc = "open" => Len(http.sent) <= http.max_retries
        /\ (Len(http.responses) = http.max_retries + 1
               /\ AllTooMany(http.responses, RetryAfters)) =>
            (/\ http.pc = "done"
             /\ http.res = NoResponse
             /\ http.exc = HTTPError(http.responses[http.max_retries + 1]))
        /\ http.pc = "done" => (http.res = NoResponse) # (http.exc = NoError)

\* C16: the bounds hold always, and a request that is open ends
C16_RetryTerminates ==
    /\ []C16_Bounded
    /\ (LinkedData /\ http.pc = "open") ~> (http.pc = "done")

C16_Witness ==
    /\ LinkedData /\ http.pc = "done" /\ http.max_retries = DefaultMaxRetries
    /\ Len(http.sent) = DefaultMaxRetries + 1
    /\ AllTooMany(http.responses, {Seconds(3), NoRetryAfter})
    /\ http.exc = HTTPError(TooManyRequests(Seconds(3)))
    /\ http.waits = <<1, 2, 4, 8, 16>>

---------------------------------------------------------------------------
(* C17: an HTTP error status other than 429, on the first attempt or      *)
(* after retries of 429, is raised at once: no wait and no request        *)
(* follows it.                                                            *)

IsError(response) == response.status >= 400

\* C17: an error response other than 429 is raised at once, nothing follows it
C17_OtherErrorsRaise ==
    \A i \in 1..Len(http.responses) :
        (LinkedData /\ IsError(http.responses[i]) /\ http.responses[i].status # 429) =>
            /\ i = Len(http.responses)
            /\ http.pc = "done"
            /\ http.exc = HTTPError(http.responses[i])
            /\ http.res = NoResponse
            /\ Len(http.sent) = i
            /\ Len(http.waits) = i - 1

C17_Witness ==
    /\ LinkedData /\ http.pc = "done"
    /\ http.responses = <<TooManyRequests(Seconds(3)), TooManyRequests(NoRetryAfter),
                          ServiceUnavailable>>
    /\ http.exc = HTTPError(ServiceUnavailable)
    /\ http.waits = <<3, 2>>

---------------------------------------------------------------------------
(* Requests of LinkedDataClient to a server that redirects                *)

LinkedDataRequests ==
    {LinkedDataClient_get(U1), LinkedDataClient_post(U1, NTriples),
     LinkedDataClient_put(U1, NTriples), LinkedDataClient_delete(U1),
     LinkedDataClient_patch(U1, SparqlUpdate)}

RedirectResponses ==
    {OK, NotFound} \cup {Redirect(code, U2) : code \in {301, 302, 307, 308}}

\* A method of LinkedDataClient, on a Python whose urllib handles 308 or
\* on one whose urllib does not
LinkedDataCall ==
    \E request \in LinkedDataRequests, follows308 \in BOOLEAN :
        Send("LinkedDataClient", request, DefaultMaxRetries, follows308)

\* The server answers, with a redirect at most MaxRedirects times
AnswerOrRedirect ==
    \E response \in RedirectResponses :
        /\ response.location # "" => Len(http.sent) < MaxRedirects
        /\ Respond(response)

NextRedirect == LinkedDataCall \/ AnswerOrRedirect

SpecRedirect == Init /\ [][NextRedirect]_vars

---------------------------------------------------------------------------
(* C18: the request that follows a 308 response has the method, the body  *)
(* and the headers of the request that was redirected, and the new URL,   *)
(* for GET, POST, PUT, PATCH and DELETE.                                  *)

Moved(request, newurl) == [request EXCEPT !.full_url = newurl]

\* C18: the follow-up of a 308 keeps method, body and headers, at the new URL
C18_Redirect308Preserves ==
    \A i \in 1..Len(http.responses) :
        (LinkedData /\ http.responses[i].status = 308 /\ http.follows308) =>
            LET next == IF i < Len(http.sent) THEN http.sent[i + 1] ELSE http.current
            IN  /\ i = Len(http.sent) => http.pc = "open"
                /\ next = Moved(http.sent[i], http.responses[i].location)
                /\ next.method = http.sent[i].method
                /\ next.data = http.sent[i].data
                /\ next.headers = http.sent[i].headers
                /\ next.full_url = http.responses[i].location

C18_Witness ==
    /\ http.pc = "done" /\ http.res = OK
    /\ http.request = LinkedDataClient_post(U1, NTriples)
    /\ http.responses = <<Redirect(308, U2), OK>>
    /\ http.sent = <<LinkedDataClient_post(U1, NTriples), LinkedDataClient_post(U2, NTriples)>>

---------------------------------------------------------------------------
(* C19: a 429 response to a request of SPARQLClient.query is not surfaced *)
(* as a failure: the query is retried, as a Linked Data request is.       *)

C19_QueryRetries429 ==
    (/\ http.client = "SPARQLClient"
     /\ Len(http.responses) = 1
     /\ http.responses[1].status = 429) =>
        http.pc = "open" /\ http.exc = NoError

---------------------------------------------------------------------------
(* C20: Concat, Replace and EncodeForURI take an evaluated argument only  *)
(* when it is a literal that is xsd:string, has a language, or has        *)
(* neither datatype nor language; an IRI, a blank node, a literal of      *)
(* another datatype or null makes them fail with the TypeError of         *)
(* to_string_literal, and nothing is made a string of.                    *)

StringCompatible(v) ==
    /\ v.k = "Literal"
    /\ v.datatype = XSD_string \/ v.language # Absent
          \/ (v.datatype = Absent /\ v.language = Absent)

\* C20: the string operators succeed exactly on string-compatible literals
C20_OnlyStringLiterals ==
    /\ (E1.pc \in {"list", "done"} /\ E1.prog \in StringPrograms) =>
          LET term == E1.stack0[1][X]
          IN  IF StringCompatible(term)
              THEN /\ E1.exc = NoExc
                   /\ Done /\ E1.prog.j = "op" =>
                         (E1.res.k = "Literal" /\ E1.res.datatype = XSD_string)
                   /\ Done /\ E1.prog = Concat(<<JStr("a"), Value(DX)>>) =>
                         E1.res = Literal("a" \o term.lex, XSD_string, Absent)
              ELSE Done => (E1.exc = ImplicitStringConversion /\ E1.res = None)
    /\ (Done /\ E1.prog \in NotStringPrograms) =>
          (E1.exc = ImplicitStringConversion /\ E1.res = None)

C20_Witness ==
    /\ Failed
    /\ E1.prog = Concat(<<JStr("a"), Value(DX)>>)
    /\ E1.stack0 = <<[n \in {X} |-> Literal("1", XSD_integer, Absent)]>>
    /\ E1.exc = ImplicitStringConversion

---------------------------------------------------------------------------
(* C21: a JSON scalar evaluates to a literal of the XSD datatype of its   *)
(* JSON type: xsd:string for a string, xsd:integer for an integer,        *)
(* xsd:double for a float and xsd:boolean for true and false.             *)

MatchingDatatype(data) ==
    CASE data.j = "str" -> XSD_string
      [] data.j = "int" -> XSD_integer
      [] data.j = "float" -> XSD_double
      [] data.j = "bool" -> XSD_boolean

\* C21: the result of a scalar is a literal of the matching datatype
C21_ScalarDatatypes ==
    (Done /\ E1.prog \in ScalarPrograms /\ E1.prog.j # "list") =>
        /\ E1.exc = NoExc
        /\ E1.res.k = "Literal"
        /\ E1.res.datatype = MatchingDatatype(E1.prog)

---------------------------------------------------------------------------
(* C22: Current evaluated where no context item has been set, at the top  *)
(* of a program or anywhere outside a ForEach body, with process_json     *)
(* called with its default context, fails and returns no value.           *)

C22_CurrentNeedsContext ==
    (Done /\ E1.prog \in CurrentPrograms) => E1.exc # NoExc

---------------------------------------------------------------------------
(* C23: ResolveURI whose base and relative are both bare JSON strings     *)
(* returns the IRI of relative resolved against base, "http://example.org/" *)
(* and "foo" giving http://example.org/foo; it does not fail.             *)

C23_ResolveBareStrings ==
    \A b \in Bases, r \in Relatives :
        (Done /\ E1.prog = ResolveURI(JStr(b), JStr(r))) =>
            (E1.exc = NoExc /\ E1.res = URIRef(urljoin(b, r)))

---------------------------------------------------------------------------
(* C24: Substitute with a variable that does not occur in the query       *)
(* returns the text of the query as it was: nothing replaced, no          *)
(* character added or removed.                                            *)

C24_AbsentVariableUnchanged ==
    \A q \in Queries, v \in {"y", "?y"} :
        (Done /\ E1.prog \in SubstitutePrograms
              /\ E1.prog.args.query = JStr(q) /\ E1.prog.args.var = JStr(v)) =>
            (E1.exc = NoExc /\ E1.res = Literal(q, XSD_string, Absent))

---------------------------------------------------------------------------
(* C25: Substitute puts the bound term in place of the variable in        *)
(* canonical SPARQL syntax: <iri>, "lexical"@lang, "lexical"^^<datatype>, *)
(* "lexical", and _:id for a blank node, the id right after the colon.    *)

Canonical(term) ==
    CASE term.k = "URIRef" -> "<" \o term.lex \o ">"
      [] term.k = "BNode" -> "_:" \o term.lex
      [] term.k = "Literal" /\ term.language # Absent ->
            "\"" \o term.lex \o "\"@" \o term.language
      [] term.k = "Literal" /\ term.language = Absent /\ term.datatype # Absent ->
            "\"" \o term.lex \o "\"^^<" \o term.datatype \o ">"
      [] OTHER -> "\"" \o term.lex \o "\""

\* C25: the query ?x with x bound to a term becomes the canonical form of
\* the term, whatever line precedes it
C25_CanonicalTerms ==
    (Done /\ E1.prog = Substitute(JStr("?x"), JStr("x"), Value(DX))
          /\ IsNode(E1.stack0[1][X])) =>
        /\ E1.exc = NoExc
        /\ E1.res.lex \in {Canonical(E1.stack0[1][X]), "\n" \o Canonical(E1.stack0[1][X])}

---------------------------------------------------------------------------
(* Merge of graphs that the caller has bound to $x and $y                 *)

\* Triples over an IRI, a blank node and a literal
Triples ==
    {<<s, URIRef("http://e/p"), o>> :
        s \in {URIRef("http://e/s"), BNode("b0")}, o \in {BNode("b0"), A}}
Graphs == {Graph(ts) : ts \in SUBSET Triples}

MergePrograms ==
    {Merge(JList(<<>>)), Merge(JList(<<Value(DX)>>)),
     Merge(JList(<<Value(DX), Value(DY)>>)), Merge(JList(<<Value(DY), Value(DX)>>)),
     Merge(JList(<<Value(DX), Value(DY), Value(DX)>>)),
     Merge(JList(<<Value(DX), JStr("a")>>)), Merge(Value(DX))}

EvaluateMerge ==
    \E json_data \in MergePrograms, g1, g2 \in Graphs :
        Call(1, json_data, TRUE, <<[n \in {X, Y} |-> IF n = X THEN g1 ELSE g2]>>, NoAnswer)

NextMerge == EvaluateMerge

SpecMerge == Init /\ [][NextMerge]_vars

---------------------------------------------------------------------------
(* C26: Merge returns the graph whose triples are the union of the        *)
(* triples of the input graphs, blank nodes as they were: Merge([g]) is   *)
(* g, Merge([g1, g2]) has the triples of g1 and of g2, in either order of *)
(* the list.                                                              *)

C26_MergeIsUnion ==
    LET g1 == E1.stack0[1][X]
        g2 == E1.stack0[1][Y]
    IN  /\ (Done /\ E1.prog = Merge(JList(<<Value(DX)>>))) =>
              (E1.exc = NoExc /\ E1.res = g1)
        /\ (Done /\ E1.prog \in {Merge(JList(<<Value(DX), Value(DY)>>)),
                                  Merge(JList(<<Value(DY), Value(DX)>>)),
                                  Merge(JList(<<Value(DX), Value(DY), Value(DX)>>))}) =>
              (E1.exc = NoExc /\ E1.res = Graph(g1.triples \cup g2.triples))

\* Two graphs that share a blank node and differ have been merged
C26_Witness ==
    /\ Succeeded
    /\ E1.prog = Merge(JList(<<Value(DY), Value(DX)>>))
    /\ E1.stack0[1][X] = Graph({<<BNode("b0"), URIRef("http://e/p"), A>>})
    /\ E1.stack0[1][Y] = Graph({<<URIRef("http://e/s"), URIRef("http://e/p"), BNode("b0")>>})
    /\ E1.res = Graph({<<BNode("b0"), URIRef("http://e/p"), A>>,
                       <<URIRef("http://e/s"), URIRef("http://e/p"), BNode("b0")>>})

---------------------------------------------------------------------------
(* C27: the elements of a list are evaluated in the order of the list;    *)
(* when element k fails the list fails with its error, no element after k *)
(* is evaluated, and what the elements before k did, the operators they   *)
(* ran and the variables they bound, is not undone.                       *)

\* The names of the operators constructed, in the order of construction
OperatorsRun(trace) ==
    LET ops == SelectSeq(trace, LAMBDA x : x.e = "op")
    IN  [i \in 1..Len(ops) |-> ops[i].op]

RECURSIVE OperatorsOf(_)
RECURSIVE OperatorsOfAll(_, _)
\* The operators of nodes 1..k, node after node
OperatorsOfAll(nodes, k) ==
    IF k = 0 THEN <<>> ELSE OperatorsOfAll(nodes, k - 1) \o OperatorsOf(nodes[k])

\* The operators of a node in the order of the text: the node, then its
\* arguments; the body of a ForEach once for every item of its list
OperatorsOf(node) ==
    IF node.j = "list" THEN OperatorsOfAll(node.items, Len(node.items))
    ELSE IF node.j # "op" THEN <<>>
    ELSE <<node.op>> \o
         CASE node.op = "Variable" -> OperatorsOf(node.args.value)
           [] node.op = "Execute" -> OperatorsOf(node.args.operation)
           [] node.op = "ForEach" ->
                OperatorsOf(node.args.select)
                    \o OperatorsOfAll([i \in 1..Len(node.args.select.items) |->
                                          node.args.operation],
                                      Len(node.args.select.items))
           [] OTHER -> <<>>

IsPrefix(s, t) == Len(s) <= Len(t) /\ SubSeq(t, 1, Len(s)) = s

\* Element j looks up a variable that the caller has not bound and no
\* element before j binds
LooksUpUnbound(items, j) ==
    \E n \in Names :
        /\ IsLookup(items[j], n)
        /\ ~BoundIn(E1.stack0, n)
        /\ \A i \in 1..(j - 1) : ~Binds(items[i], n)

\* C27: elements run in order; at a failure the run stops with the error,
\* and earlier operators and bindings stay
C27_ListStopsAtFailure ==
    (E1.pc \in {"list", "done"} /\ E1.prog \in ListPrograms) =>
        LET items == E1.prog.items
            k == Len(E1.results)
            before == OperatorsOfAll(items, k)
        IN  /\ k <= Len(items)
            /\ E1.pc = "list" => E1.i = k + 1
            /\ \A j \in 1..Len(items) : LooksUpUnbound(items, j) => k < j
            /\ ~Failed => OperatorsRun(E1.trace) = before
            /\ Succeeded => k = Len(items)
            /\ Failed =>
                  /\ k < Len(items)
                  /\ E1.res = None
                  /\ Len(OperatorsRun(E1.trace)) > Len(before)
                  /\ IsPrefix(OperatorsRun(E1.trace), OperatorsOfAll(items, k + 1))
                  /\ \A n \in Names :
                        (E1.stack0 # <<>> /\ BoundBefore(items, k + 1, n) # Unknown) =>
                            /\ n \in DOMAIN FinalScopes[Len(FinalScopes)]
                            /\ FinalScopes[Len(FinalScopes)][n] = BoundBefore(items, k + 1, n)

\* The second element has failed after the first had bound x
C27_Witness ==
    /\ Failed
    /\ E1.prog = JList(<<Variable(X, JStr("a")), Value(DY), Variable(X, JStr("b"))>>)
    /\ E1.stack0 = <<EmptyDict>>
    /\ E1.exc = VariableNotFound
    /\ OperatorsRun(E1.trace) = <<"Variable", "Value">>
    /\ FinalScopes = <<[n \in {X} |-> A]>>

---------------------------------------------------------------------------
(* C28: Execute evaluates its node in the environment of the Execute node: *)
(* in a ForEach body Current in the node is the item of the iteration,    *)
(* and Value{"$y"} in the node is what Value{"$y"} in the place of the    *)
(* Execute node returns.                                                  *)

C28_ExecuteSameEnvironment ==
    /\ (Done /\ E1.prog = ForEach(JList(<<JStr("a"), JStr("b")>>), Execute(Current))) =>
          (E1.exc = NoExc /\ E1.res = PyList(<<A, B>>))
    /\ (Done /\ E1.prog = Execute(Value(DY)) /\ E1.stack0 = <<[n \in {Y} |-> B]>>) =>
          (E1.exc = NoExc /\ E1.res = B)
    /\ (Done /\ E1.prog = JList(<<Variable(Y, JStr("a")), Execute(Value(DY))>>)) =>
          (E1.exc = NoExc /\ E1.res = PyList(<<None, A>>))
    /\ (Done /\ E1.stack0 = <<[n \in {Y} |-> B]>>
              /\ E1.prog = ForEach(JList(<<JStr("a"), JStr("b")>>), Execute(Value(DY)))) =>
          (E1.exc = NoExc /\ E1.res = PyList(<<B, B>>))

---------------------------------------------------------------------------
(* C29: in a ForEach body Value{name: n}, n without `$`, returns the term *)
(* bound to n in the row of the iteration, when select is a Result and    *)
(* when it is the list of rows of Bindings(Result); it fails only when    *)
(* the row has no binding for n.                                          *)

C29_ValueReadsRow ==
    \A select \in Rows :
        (Done /\ E1.prog = ForEach(select, Value(S_))) =>
            LET rows == from_json(E1.server).bindings
            IN  /\ E1.exc = NoExc
                /\ E1.res = PyList([r \in 1..Len(rows) |-> rows[r][S_]])

---------------------------------------------------------------------------
(* Retries of a Linked Data request whose 429 responses carry a           *)
(* Retry-After of every form, small and large                             *)

LongRetryAfters ==
    {NoRetryAfter, Seconds(0), Seconds(3600), Seconds(-1), HttpDate(3600), HttpDate(-7),
     Unparsable}

AnswerLong == \E response \in {OK} \cup {TooManyRequests(ra) : ra \in LongRetryAfters} :
                  Respond(response)

NextWait == Get \/ AnswerLong

SpecWait == Init /\ [][NextWait]_vars

---------------------------------------------------------------------------
(* C30: the wait before every retry is between 0 and 60 seconds, whatever *)
(* the Retry-After of the 429 response is: absent, a number of seconds,   *)
(* negative or large, an HTTP-date past or future, or unparsable.         *)

C30_WaitWithinCap ==
    LinkedData =>
        /\ \A i \in 1..Len(http.waits) : 0 <= http.waits[i] /\ http.waits[i] <= 60
        /\ http.exc # SleepValueError

====
